---- MODULE Spec2Model ----
(***************************************************************************)
(* A model of pyxwin: the hashed file writer (io_operations/file_io.py),   *)
(* the manifest loader (wincrt_sdk/vs_manifest.py) and the `wincrt         *)
(* download` pipeline (pyxwin_cli/wincrtsdk_cli/wincrt_cmd.py,             *)
(* wincrt_sdk/download_unpack.py).                                         *)
(*                                                                         *)
(* Three specifications share the variables:                               *)
(*   SpecDV     multi_download_and_validate over a list of tuples          *)
(*   SpecCache  repeated runs of app_callback + the two manifest loads     *)
(*              against one cache directory                                *)
(*   Spec       one run of the whole `wincrt download` command             *)
(* Awaits are the atomic boundaries: code between two awaits of one task   *)
(* is one step, and a cancellation takes effect at the await a task is     *)
(* suspended in.                                                           *)
(***************************************************************************)
EXTENDS Integers, Sequences, FiniteSets, TLC

VARIABLES
    \* ---- multi_download_and_validate (SpecDV)
    dvFiles,     \* the `files` argument: sequence of [url, path, sha256]
    dvTask,      \* per tuple: position of its download_and_validate task
    dvRaw,       \* per tuple: raw_bytes once fetched
    dvDisk,      \* path -> file
    dvDisk0,     \* dvDisk when the call started
    dvGroup,     \* the TaskGroup / the call: running, returned, failed
    dvErrors,    \* errors raised by tasks, in the order they were raised
    \* ---- the command (Spec, SpecCache)
    run,         \* number of the current process run
    pc,          \* position of the current run
    args,        \* the CLI arguments of the current run
    cfg,         \* manifest_options, the module-level ManifestOptions
    exitCode,    \* exit code of the run once it ended
    failedAt,    \* the stage whose exception ended the run
    cache,       \* cache_dir/manifest_{v}/{channel}/: pair -> [chan, inst]
    cache0,      \* cache when the current run started
    httpLog,     \* URLs requested by the current run, in order
    readLog,     \* manifest files read by the current run
    writeLog,    \* manifest files written by the current run, in order
    chanManifest,\* result of load_channel_manifest
    instIndex,   \* result of load_installer_manifest (PyxwinPackages)
    selection,   \* result of prune_packages: sequence of payload numbers
    ftask,       \* download_packages: fetch task per selected payload
    fraw,        \* bytes each fetch task returned
    wtask,       \* download_packages: write task per selected payload
    disk,        \* cache_dir/downloads/: path -> file
    disk0,       \* disk when the current run started
    retPaths,    \* downloaded_file_paths as returned by download_packages
    unpackDirs,  \* extract locations created under cache_dir/unpack/
    xtask,       \* unpack_files: extraction per downloaded path
    reduced,     \* package dirs produced under cache_dir/reduced/
    \* ---- prune_packages on its own (SpecSelect)
    selCfg,      \* the ManifestOptions handed to prune_packages
    selIdx,      \* the PyxwinPackages handed to prune_packages
    selOut,      \* what prune_packages returned or raised
    plan,        \* the selected payload behind each kind of download of the run
    \* reduce_crt_files / reduce_sdk_files
    redKind,     \* "CRT" or "SDK": which of the two reducers runs
    unpackTree,  \* files under cache_dir/unpack/{pkg}/: path -> content
    reducedTree, \* files under cache_dir/reduced/{pkg}/: path -> content
    fromDirs,    \* from_dirs still to copy
    copyLog,     \* <<source file, reduced file>> of every file copy made
    redPc,       \* "idle", "copying", "done"
    \* the VSIX extractors
    zipMembers,  \* zip_ref.namelist() of the archive
    zipWritten,  \* member paths written below extract_location
    zipPc,       \* "idle", or the extractor that ran
    \* a ManifestOptions object
    mo,          \* its field values; NoObject before construction
    moErr,       \* what the last construction or assignment raised
    \* multi_extract_msi_async / multi_extract_vsix_async
    exKind,      \* which of the functions was called
    exTask,      \* the work items of the pool, in submission order
    exPc,        \* "idle", "gather", "shutdown", "returned"
    exErr,       \* "none", or "error" when gather raised
    exPeak,      \* the most extractions seen executing at one moment
    \* SDKPayload.from_manifest_payload
    canIn,       \* the manifest payload and the kind it is called with
    canOut       \* the SDKPayload it returned

dvVars == <<dvFiles, dvTask, dvRaw, dvDisk, dvDisk0, dvGroup, dvErrors>>
runVars == <<run, pc, args, cfg, exitCode, failedAt, cache, cache0,
             httpLog, readLog, writeLog, chanManifest, instIndex>>
dlVars == <<selection, ftask, fraw, wtask, disk, disk0, retPaths,
            unpackDirs, xtask, reduced>>
selVars == <<selCfg, selIdx, selOut, plan>>
redVars == <<redKind, unpackTree, reducedTree, fromDirs, copyLog, redPc>>
zipVars == <<zipMembers, zipWritten, zipPc>>
optVars == <<mo, moErr>>
exVars == <<exKind, exTask, exPc, exErr, exPeak>>
canVars == <<canIn, canOut>>
libVars == <<exVars, canVars>>
fnVars == <<selVars, redVars, zipVars, optVars, libVars>>
vars == <<dvVars, runVars, dlVars, fnVars>>

-----------------------------------------------------------------------------
(* Bounds *)

MaxBlob == 2        \* file contents are blobs 0..MaxBlob
MaxTasks == 3       \* tuples handed to multi_download_and_validate
MaxRuns == 3        \* process runs against one cache directory
MaxPayloads == 3    \* payloads a selection holds

-----------------------------------------------------------------------------
(* Bytes, files and SHA-256 *)

Blob == 0..MaxBlob
\* raw bytes: the empty string or one blob
RawBytes == {<<>>} \cup {<<b>> : b \in Blob}

NoFile == [exists |-> FALSE, data |-> <<>>]
FileOf(raw) == [exists |-> TRUE, data |-> raw]
Files == {NoFile} \cup {FileOf(raw) : raw \in RawBytes}

\* A hex digest: its value and whether its letters are written in upper case.
\* sha256(raw).hexdigest() is lower case; distinct bytes have distinct digests.
hexdigest(raw) ==
    [val |-> IF raw = <<>> THEN 0 ELSE 5 * raw[1] + 3, upper |-> FALSE]
lower(d) == [d EXCEPT !.upper = FALSE]
Digests == {[val |-> hexdigest(raw).val, upper |-> u] :
                raw \in RawBytes, u \in BOOLEAN}

\* The bytes the published sha256 of file i was computed from.
Genuine(i) == <<i % (MaxBlob + 1)>>
\* Some other bytes a server can answer with.
Corrupt(i) == <<(i + 1) % (MaxBlob + 1)>>

\* file_io.py:39 negated: target_sha256.lower() == downloaded_sha.lower()
ShaMatches_NoCheck(target, raw) == TRUE
ShaMatches_NoLower(target, raw) == target = hexdigest(raw)
ShaMatches(target, raw) == lower(target) = lower(hexdigest(raw))

\* PyxwinDownloadError(status_code, ...) and the other exceptions
DownloadError(status) == [kind |-> "Download", status |-> status]
OtherError(kind) == [kind |-> kind, status |-> "null"]
HttpStatuses == {"404", "500"}
NoError == [kind |-> "none", status |-> "null"]

-----------------------------------------------------------------------------
(* multi_download_and_validate: one download_and_validate task per tuple   *)
(* in an asyncio.TaskGroup.                                                *)
(* Task positions:                                                         *)
(*   fetching   suspended in `await fetch_file_bytes(url)`                 *)
(*   verified   hash compared equal, suspended in aiofiles.open(path,"wb") *)
(*   opened     file created or truncated, suspended in fp.write           *)
(*   done       returned                                                   *)
(*   failed     raised                                                     *)
(*   cancelled  cancelled by the TaskGroup                                 *)

DVTasks == 1..Len(dvFiles)
DVLive == {"fetching", "verified", "opened"}

\* The tuples of a call: one url and one path per tuple, and as sha256 the
\* digest of the bytes the publisher hashed, in either letter case.
DVTuples(n) ==
    {[i \in 1..n |-> [url |-> i, path |-> i,
                      sha256 |-> [hexdigest(Genuine(i)) EXCEPT !.upper = u[i]]]] :
        u \in [1..n -> BOOLEAN]}

DVInit ==
    /\ \E n \in 1..MaxTasks : dvFiles \in DVTuples(n)
    /\ dvTask = [i \in DVTasks |-> "fetching"]
    /\ dvRaw = [i \in DVTasks |-> <<>>]      \* <<>>: no bytes received yet
    \* the odd paths hold an older file, the even paths do not exist yet
    /\ dvDisk = [i \in DVTasks |-> IF i % 2 = 1 THEN FileOf(Corrupt(i)) ELSE NoFile]
    /\ dvDisk0 = dvDisk
    /\ dvGroup = "running"
    /\ dvErrors = <<>>

\* https_client.py:40-45: a response arrived. A non-2xx status raises
\* PyxwinDownloadError(status_code); otherwise response.content is returned
\* and download_and_validate goes on to the comparison of file_io.py:38-40.
download_and_validate_response(i, status, raw) ==
    /\ dvTask[i] = "fetching"
    /\ IF status # "200"
       THEN /\ dvTask' = [dvTask EXCEPT ![i] = "failed"]
            /\ dvErrors' = Append(dvErrors, [task |-> i, err |-> DownloadError(status)])
            /\ UNCHANGED dvRaw
       ELSE /\ dvRaw' = [dvRaw EXCEPT ![i] = <<raw>>]
            /\ IF ShaMatches(dvFiles[i].sha256, raw)
               THEN /\ dvTask' = [dvTask EXCEPT ![i] = "verified"]
                    /\ UNCHANGED dvErrors
               ELSE /\ dvTask' = [dvTask EXCEPT ![i] = "failed"]
                    /\ dvErrors' = Append(dvErrors,
                                     [task |-> i, err |-> DownloadError("null")])
    /\ UNCHANGED <<dvFiles, dvDisk, dvDisk0, dvGroup>>
    /\ UNCHANGED <<runVars, dlVars, fnVars>>

\* https_client.py:39: client.get raised before any response (httpx.TransportError);
\* nothing catches it, the task raises it as it is.
download_and_validate_no_response(i) ==
    /\ dvTask[i] = "fetching"
    /\ dvTask' = [dvTask EXCEPT ![i] = "failed"]
    /\ dvErrors' = Append(dvErrors, [task |-> i, err |-> OtherError("httpx.TransportError")])
    /\ UNCHANGED <<dvFiles, dvRaw, dvDisk, dvDisk0, dvGroup>>
    /\ UNCHANGED <<runVars, dlVars, fnVars>>

\* aiofiles_wrapper.py:65: aiofiles.open(path, "wb") creates or truncates.
async_write_bytes_open(i) ==
    /\ dvTask[i] = "verified"
    /\ dvDisk' = [dvDisk EXCEPT ![dvFiles[i].path] = FileOf(<<>>)]
    /\ dvTask' = [dvTask EXCEPT ![i] = "opened"]
    /\ UNCHANGED <<dvFiles, dvRaw, dvDisk0, dvGroup, dvErrors>>
    /\ UNCHANGED <<runVars, dlVars, fnVars>>

\* aiofiles_wrapper.py:66: fp.write(raw_bytes), then the file is closed.
async_write_bytes_write(i) ==
    /\ dvTask[i] = "opened"
    /\ dvDisk' = [dvDisk EXCEPT ![dvFiles[i].path] = FileOf(dvRaw[i][1])]
    /\ dvTask' = [dvTask EXCEPT ![i] = "done"]
    /\ UNCHANGED <<dvFiles, dvRaw, dvDisk0, dvGroup, dvErrors>>
    /\ UNCHANGED <<runVars, dlVars, fnVars>>

\* What the TaskGroup does to the other tasks once it sees a failed child.
TaskGroupCancel_None(t) == t
TaskGroupCancel(t) ==
    [i \in DOMAIN t |-> IF t[i] \in DVLive THEN "cancelled" ELSE t[i]]

\* file_io.py:51-53, leaving `async with asyncio.TaskGroup()` after a child
\* raised: the children still running are cancelled and the group raises.
multi_download_and_validate_abort ==
    /\ dvGroup = "running"
    /\ \E i \in DVTasks : dvTask[i] = "failed"
    /\ dvTask' = TaskGroupCancel(dvTask)
    /\ dvGroup' = "failed"
    /\ UNCHANGED <<dvFiles, dvRaw, dvDisk, dvDisk0, dvErrors>>
    /\ UNCHANGED <<runVars, dlVars, fnVars>>

\* May the `async with` block be left normally?
TaskGroupJoined_NoWait(t) == \A i \in DOMAIN t : t[i] # "failed"
TaskGroupJoined(t) == \A i \in DOMAIN t : t[i] = "done"

\* file_io.py:51-53, leaving `async with asyncio.TaskGroup()` normally.
multi_download_and_validate_return ==
    /\ dvGroup = "running"
    /\ TaskGroupJoined(dvTask)
    /\ dvGroup' = "returned"
    /\ UNCHANGED <<dvFiles, dvTask, dvRaw, dvDisk, dvDisk0, dvErrors>>
    /\ UNCHANGED <<runVars, dlVars, fnVars>>

DVNext ==
    \/ \E i \in DVTasks, status \in HttpStatuses \cup {"200"}, genuine \in BOOLEAN :
          download_and_validate_response(i, status,
                                         IF genuine THEN Genuine(i) ELSE Corrupt(i))
    \/ \E i \in DVTasks : download_and_validate_no_response(i)
    \/ \E i \in DVTasks : async_write_bytes_open(i)
    \/ \E i \in DVTasks : async_write_bytes_write(i)
    \/ multi_download_and_validate_abort
    \/ multi_download_and_validate_return

-----------------------------------------------------------------------------
(* The command line and the manifest cache *)

VISUAL_STUDIO_2026_CHANNEL == 18
Versions == {17, 18, 19}
Channels == {"stable", "pre", "release", "insiders"}
Pairs == Versions \X Channels

\* How the licence question is answered: the flag, or a reply to the prompt.
Licences == {"flag", "Y", "n"}
str_lower(s) == IF s = "Y" THEN "y" ELSE s

ArgSet == [licence : Licences, manifest_version : Versions,
           channel : Channels, manifest_path : BOOLEAN]

\* ManifestOptions.get_default_manifest_options()
DefaultOptions ==
    [manifest_version |-> 18, channel |-> "stable", manifest_path |-> FALSE]
NoArgs == [licence |-> "flag", manifest_version |-> 18,
           channel |-> "stable", manifest_path |-> FALSE]

\* wincrt_cmd.py:95-101: TRUE when the (version, channel) combination is refused.
GateRejects_Strict(v, ch) ==
    IF v > VISUAL_STUDIO_2026_CHANNEL
    THEN ch \notin {"stable", "insiders"}
    ELSE ch \notin {"release", "pre"}
GateRejects(v, ch) ==
    IF v >= VISUAL_STUDIO_2026_CHANNEL
    THEN ch \notin {"stable", "insiders"}
    ELSE ch \notin {"release", "pre"}

\* URLs. A document remembers the URL it was served from.
Url(what, v, ch) == [what |-> what, v |-> v, ch |-> ch]
\* vs_manifest.py:49-51
ChannelUrl(o) == Url("channel", o.manifest_version, o.channel)
LocalOrigin == Url("local", 0, "local")
NoUrl == Url("none", 0, "none")

\* Manifest documents: where the text came from and what it holds.
\*   ok        valid JSON; a channel manifest with an item of type Manifest
\*             that has a payload, an installer manifest with packages
\*   noitem    a channel manifest whose channelItems has no Manifest item
\*   bad       text that validate_json rejects
ChanShapes == {"ok", "noitem", "bad"}
InstShapes == {"ok", "bad"}
Doc(origin, shape) == [exists |-> TRUE, origin |-> origin, shape |-> shape]
NoDoc == [exists |-> FALSE, origin |-> NoUrl, shape |-> "none"]

\* payloads[0].url of the first Manifest item of a channel manifest
\* (vs_manifest.py:88-100)
InstallerUrl(chan) == Url("installer", chan.origin.v, chan.origin.ch)

\* dest_dir of vs_manifest.py:42 and :124
DestKey_VersionOnly(o) == <<o.manifest_version, "stable">>
DestKey(o) == <<o.manifest_version, o.channel>>

EmptyCache == [p \in Pairs |-> [chan |-> NoDoc, inst |-> NoDoc]]

NoFailure == [stage |-> "none", kind |-> "none"]
Statuses == {"200", "404", "500", "none"}
\* The exception fetch_file ends with for a status other than 200
\* (https_client.py:20-25); "none" is a request that got no response.
FetchErrorKind(status) == IF status = "none" THEN "httpx.TransportError" ELSE "Download"

RunReset ==
    /\ pc = "start"
    /\ args = NoArgs
    /\ cfg = DefaultOptions
    /\ exitCode = 0
    /\ failedAt = NoFailure
    /\ httpLog = <<>>
    /\ readLog = {}
    /\ writeLog = <<>>
    /\ chanManifest = NoDoc
    /\ instIndex = NoDoc

\* An exception nothing catches ends the process with a traceback.
Fail(stage, kind) ==
    /\ pc' = "failed"
    /\ failedAt' = [stage |-> stage, kind |-> kind]
    /\ exitCode' = 1

\* wincrt_cmd.py:67-113
app_callback(a) ==
    /\ pc = "start"
    /\ args' = a
    /\ IF a.licence # "flag" /\ str_lower(a.licence) # "y"
       THEN /\ pc' = "exit" /\ exitCode' = 1 /\ UNCHANGED cfg
       ELSE IF GateRejects(a.manifest_version, a.channel)
       THEN /\ pc' = "exit" /\ exitCode' = 1 /\ UNCHANGED cfg
       ELSE /\ pc' = "configured"
            /\ cfg' = [manifest_version |-> a.manifest_version,
                       channel |-> a.channel,
                       manifest_path |-> a.manifest_path]
            /\ UNCHANGED exitCode
    /\ UNCHANGED <<run, failedAt, cache, cache0, httpLog, readLog, writeLog,
                   chanManifest, instIndex>>
    /\ UNCHANGED <<dvVars, dlVars, fnVars>>

\* dest_path.exists() of vs_manifest.py:46 and :128
dest_path_exists_Never(doc) == FALSE
dest_path_exists(doc) == doc.exists

\* vs_manifest.py:59-73 with _fetch_channel_manifest, :32-56.
\* status and shape are what the server (or the local file) answers.
load_channel_manifest(status, shape) ==
    /\ pc = "configured"
    /\ LET key == DestKey(cfg)
           cached == cache[key].chan
       IN IF cfg.manifest_path
          THEN \* :70-71 read the file given on the command line
               /\ status = "200"
               /\ UNCHANGED <<cache, httpLog, readLog, writeLog>>
               /\ IF shape = "bad"
                  THEN Fail("channel", "ValidationError") /\ UNCHANGED chanManifest
                  ELSE /\ chanManifest' = Doc(LocalOrigin, shape)
                       /\ pc' = "chan_loaded"
                       /\ UNCHANGED <<failedAt, exitCode>>
          ELSE IF dest_path_exists(cached)
          THEN \* :47 read, :54 write, :56 validate
               /\ status = "200" /\ shape = cached.shape
               /\ readLog' = readLog \cup {<<key, "chan">>}
               /\ writeLog' = Append(writeLog, <<key, "chan">>)
               /\ cache' = [cache EXCEPT ![key].chan = cached]
               /\ UNCHANGED httpLog
               /\ IF cached.shape = "bad"
                  THEN Fail("channel", "ValidationError") /\ UNCHANGED chanManifest
                  ELSE /\ chanManifest' = cached
                       /\ pc' = "chan_loaded"
                       /\ UNCHANGED <<failedAt, exitCode>>
          ELSE \* :49-52 fetch, :54 write, :56 validate
               /\ httpLog' = Append(httpLog, ChannelUrl(cfg))
               /\ UNCHANGED readLog
               /\ IF status # "200"
                  THEN /\ Fail("channel", FetchErrorKind(status))
                       /\ UNCHANGED <<cache, writeLog, chanManifest>>
                  ELSE /\ writeLog' = Append(writeLog, <<key, "chan">>)
                       /\ cache' = [cache EXCEPT ![key].chan = Doc(ChannelUrl(cfg), shape)]
                       /\ IF shape = "bad"
                          THEN Fail("channel", "ValidationError") /\ UNCHANGED chanManifest
                          ELSE /\ chanManifest' = Doc(ChannelUrl(cfg), shape)
                               /\ pc' = "chan_loaded"
                               /\ UNCHANGED <<failedAt, exitCode>>
    /\ UNCHANGED <<run, args, cfg, cache0, instIndex>>
    /\ UNCHANGED <<dvVars, dlVars, fnVars>>

\* vs_manifest.py:107-144 with _fetch_installer_manifest, :76-104.
load_installer_manifest(status, shape) ==
    /\ pc = "chan_loaded"
    /\ LET key == DestKey(cfg)
           cached == cache[key].inst
       IN IF ~dest_path_exists(cached)
          THEN IF chanManifest.shape = "noitem"
               THEN \* :88-93 no item of type Manifest
                    /\ status = "200" /\ shape = "ok"
                    /\ Fail("installer", "MalformedJson")
                    /\ UNCHANGED <<cache, httpLog, readLog, writeLog, instIndex>>
               ELSE \* :100-104 fetch payloads[0].url, write, validate
                    /\ httpLog' = Append(httpLog, InstallerUrl(chanManifest))
                    /\ UNCHANGED readLog
                    /\ IF status # "200"
                       THEN /\ Fail("installer", FetchErrorKind(status))
                            /\ UNCHANGED <<cache, writeLog, instIndex>>
                       ELSE /\ writeLog' = Append(writeLog, <<key, "inst">>)
                            /\ cache' = [cache EXCEPT ![key].inst =
                                             Doc(InstallerUrl(chanManifest), shape)]
                            /\ IF shape = "bad"
                               THEN Fail("installer", "ValidationError")
                                    /\ UNCHANGED instIndex
                               ELSE /\ instIndex' = Doc(InstallerUrl(chanManifest), shape)
                                    /\ pc' = "indexed"
                                    /\ UNCHANGED <<failedAt, exitCode>>
          ELSE \* :132-133 read the cached file, validate
               /\ status = "200" /\ shape = cached.shape
               /\ readLog' = readLog \cup {<<key, "inst">>}
               /\ UNCHANGED <<cache, httpLog, writeLog>>
               /\ IF cached.shape = "bad"
                  THEN Fail("installer", "ValidationError") /\ UNCHANGED instIndex
                  ELSE /\ instIndex' = cached
                       /\ pc' = "indexed"
                       /\ UNCHANGED <<failedAt, exitCode>>
    /\ UNCHANGED <<run, args, cfg, cache0, chanManifest>>
    /\ UNCHANGED <<dvVars, dlVars, fnVars>>

-----------------------------------------------------------------------------
(* Strings: a str is the sequence of its characters *)

UpperLetters == <<"A", "B", "C", "D", "E", "F", "G", "H", "I", "J", "K", "L", "M", "N", "O", "P", "Q", "R", "S", "T", "U", "V", "W", "X", "Y", "Z">>
LowerLetters == <<"a", "b", "c", "d", "e", "f", "g", "h", "i", "j", "k", "l", "m", "n", "o", "p", "q", "r", "s", "t", "u", "v", "w", "x", "y", "z">>
Digits == <<"0", "1", "2", "3", "4", "5", "6", "7", "8", "9">>
LetterIndex(letters, c) == CHOOSE k \in 1..Len(letters) : letters[k] = c
IsIn(letters, c) == \E k \in 1..Len(letters) : letters[k] = c

\* str.lower(), str.upper()
text_lower(s) ==
    [k \in 1..Len(s) |->
        IF IsIn(UpperLetters, s[k]) THEN LowerLetters[LetterIndex(UpperLetters, s[k])] ELSE s[k]]
text_upper(s) ==
    [k \in 1..Len(s) |->
        IF IsIn(LowerLetters, s[k]) THEN UpperLetters[LetterIndex(LowerLetters, s[k])] ELSE s[k]]

\* needle in s
Contains(needle, s) ==
    \E k \in 1..(Len(s) - Len(needle) + 1) : SubSeq(s, k, k + Len(needle) - 1) = needle
\* s.endswith(suffix)
EndsWith(s, suffix) ==
    /\ Len(suffix) <= Len(s)
    /\ SubSeq(s, Len(s) - Len(suffix) + 1, Len(s)) = suffix

\* s.split("."): the parts of s between the dots
RECURSIVE SplitFrom(_, _, _)
SplitFrom(s, k, part) ==
    IF k > Len(s) THEN <<part>>
    ELSE IF s[k] = "." THEN <<part>> \o SplitFrom(s, k + 1, <<>>)
    ELSE SplitFrom(s, k + 1, Append(part, s[k]))
split_dot(s) == SplitFrom(s, 1, <<>>)

\* ".".join(parts)
RECURSIVE JoinFrom(_, _)
JoinFrom(parts, k) ==
    IF k > Len(parts) THEN <<>>
    ELSE IF k = Len(parts) THEN parts[k]
    ELSE parts[k] \o <<".">> \o JoinFrom(parts, k + 1)
join_dot(parts) == JoinFrom(parts, 1)

\* str.isdigit()
isdigit(s) == s # <<>> /\ \A k \in 1..Len(s) : IsIn(Digits, s[k])

\* int(s) of a digit string and str(n) of a natural number
RECURSIVE IntOf(_, _)
IntOf(s, k) ==
    IF k = 0 THEN 0 ELSE 10 * IntOf(s, k - 1) + (LetterIndex(Digits, s[k]) - 1)
int_of(s) == IntOf(s, Len(s))
RECURSIVE str_of(_)
str_of(n) == IF n < 10 THEN <<Digits[n + 1]>> ELSE str_of(n \div 10) \o <<Digits[(n % 10) + 1]>>

-----------------------------------------------------------------------------
(* manifest_datatypes.py: Architecture, Variant, versions, payload kinds *)

Architectures == {"x86", "x86_64", "aarch", "aarch64"}
as_microsoft_names(arch) ==
    CASE arch = "x86" -> <<"x", "8", "6">>
      [] arch = "x86_64" -> <<"x", "6", "4">>
      [] arch = "aarch" -> <<"a", "r", "m">>
      [] arch = "aarch64" -> <<"a", "r", "m", "6", "4">>
      [] arch = "all" -> <<"a", "l", "l">>
to_crt_package_id_str(arch) ==
    IF arch = "aarch64" THEN text_upper(as_microsoft_names(arch)) ELSE as_microsoft_names(arch)
to_atl_package_id_str(arch) == text_upper(to_crt_package_id_str(arch))

Variants == {"Desktop", "OneCore", "Store", "All"}
\* Variant.__str__, which is what an f-string renders
variant_str(variant) ==
    CASE variant = "Desktop" -> <<"D", "e", "s", "k", "t", "o", "p">>
      [] variant = "OneCore" -> <<"O", "n", "e", "C", "o", "r", "e", ".", "D", "e", "s", "k", "t", "o", "p">>
      [] variant = "Store" -> <<"S", "t", "o", "r", "e">>
      [] variant = "All" -> <<"A", "l", "l">>
get_all_variants_NoStore == <<"Desktop", "OneCore">>
get_all_variants == <<"Desktop", "OneCore", "Store">>

\* packaging.version.Version of a dotted release string, and its str()
Version(s) == [k \in 1..Len(split_dot(s)) |-> int_of(split_dot(s)[k])]
version_str(v) == join_dot([k \in 1..Len(v) |-> str_of(v[k])])

\* order of str: by character, "." before the digits
CharRank(c) == IF c = "." THEN 0 ELSE LetterIndex(Digits, c)
RECURSIVE TextLess(_, _, _)
TextLess(a, b, k) ==
    IF k > Len(a) THEN k <= Len(b)
    ELSE IF k > Len(b) THEN FALSE
    ELSE IF a[k] = b[k] THEN TextLess(a, b, k + 1)
    ELSE CharRank(a[k]) < CharRank(b[k])
\* order of Version: component by component, as numbers
RECURSIVE ReleaseLess(_, _, _)
ReleaseLess(a, b, k) ==
    IF k > Len(a) \/ k > Len(b) THEN Len(a) < Len(b)
    ELSE IF a[k] = b[k] THEN ReleaseLess(a, b, k + 1)
    ELSE a[k] < b[k]
VersionLess_Text(a, b) == TextLess(version_str(a), version_str(b), 1)
VersionLess(a, b) == ReleaseLess(a, b, 1)
\* max(versions)
MaxVersion(versions) ==
    CHOOSE v \in versions : \A w \in versions : w = v \/ VersionLess(w, v)

\* win_crt.py:23-38
extract_version(component_id) ==
    LET parts == split_dot(component_id)
        hits == {i \in 1..(Len(parts) - 3) : \A j \in i..(i + 3) : isdigit(parts[j])}
    IN IF hits = {} THEN [found |-> FALSE, ver |-> <<>>]
       ELSE LET i == CHOOSE h \in hits : \A g \in hits : h <= g
            IN [found |-> TRUE, ver |-> join_dot(SubSeq(parts, i, i + 3))]

HeaderKinds == {"AtlHeaders", "CrtHeaders", "SdkHeaders"}

\* manifest_datatypes.py:244-258; "raise" stands for the PyxwinError
detect_arch_from_id_X86First(item_id, kind) ==
    LET low == text_lower(item_id)
    IN IF Contains(as_microsoft_names("x86"), low) THEN "x86"
       ELSE IF Contains(as_microsoft_names("x86_64"), low) THEN "x86_64"
       ELSE IF Contains(as_microsoft_names("aarch"), low) THEN "aarch"
       ELSE IF Contains(as_microsoft_names("aarch64"), low) THEN "aarch64"
       ELSE IF kind \in HeaderKinds THEN "all"
       ELSE "raise"
detect_arch_from_id(item_id, kind) ==
    LET low == text_lower(item_id)
    IN IF Contains(as_microsoft_names("aarch64"), low) THEN "aarch64"
       ELSE IF Contains(as_microsoft_names("aarch"), low) THEN "aarch"
       ELSE IF Contains(as_microsoft_names("x86_64"), low) THEN "x86_64"
       ELSE IF Contains(as_microsoft_names("x86"), low) THEN "x86"
       ELSE IF kind \in HeaderKinds THEN "all"
       ELSE "raise"

\* manifest_datatypes.py:313-323: the variant of a CRTPayload
detect_variant(item_id, kind) ==
    IF kind \in {"AtlLibs"} \cup HeaderKinds THEN "All"
    ELSE IF Contains(variant_str("OneCore"), item_id) THEN "OneCore"
    ELSE IF Contains(variant_str("Desktop"), item_id) THEN "Desktop"
    ELSE IF Contains(variant_str("Store"), item_id) THEN "Store"
    ELSE "raise"

-----------------------------------------------------------------------------
(* win_crt.py: the CRT and ATL part of the selector.                       *)
(* A PyxwinPackages value idx holds                                         *)
(*   items      ids of the packages that have a payload                     *)
(*   nopayload  ids of the packages whose payload list is empty             *)
(*   buildtools the items under Microsoft.VisualStudio.Product.BuildTools,  *)
(*              in manifest order, each as its dependency keys; <<>> when   *)
(*              the id is not a key of the dict                             *)
(*   sdk, ucrt  the payload file names of the SDK and of the UCRT package   *)
(* A dict is a function from its keys; an operation that can raise returns  *)
(* [ok, err, out].                                                          *)

None == <<>>
EmptyDict == <<>>
Put(d, k, v) == [x \in DOMAIN d \cup {k} |-> IF x = k THEN v ELSE d[x]]
\* a | b
Merge(a, b) == [x \in DOMAIN a \cup DOMAIN b |-> IF x \in DOMAIN b THEN b[x] ELSE a[x]]
Ok(out) == [ok |-> TRUE, err |-> "none", out |-> out]
Raise(err) == [ok |-> FALSE, err |-> err, out |-> EmptyDict]

\* manifest_datatypes.py:295-342
from_manifest_item(idx, item_id, kind, crt_version, spectre_hardened) ==
    IF detect_variant(item_id, kind) = "raise" THEN Raise("PyxwinError")
    ELSE IF detect_arch_from_id(item_id, kind) = "raise" THEN Raise("PyxwinError")
    ELSE IF item_id \in idx.nopayload THEN Raise("MalformedJsonError")
    ELSE Ok([cls |-> "CRTPayload",
             kind |-> kind,
             target_arch |-> detect_arch_from_id(item_id, kind),
             variant |-> detect_variant(item_id, kind),
             version |-> version_str(crt_version),
             spectre_hardened |-> spectre_hardened])

\* win_crt.py:41-65
grab_payload_from_pyxwin_packages(idx, item_id, kind, crt_version, spectre_hardened) ==
    IF item_id \notin idx.items \cup idx.nopayload
    THEN Raise("UnsupportedPackageConfigurationError")
    ELSE from_manifest_item(idx, item_id, kind, crt_version, spectre_hardened)

\* the ids the f-strings of win_crt.py build
VCPrefix(crt_version) == <<"M", "i", "c", "r", "o", "s", "o", "f", "t", ".", "V", "C", ".">> \o version_str(crt_version)
crt_header_id(crt_version) == VCPrefix(crt_version) \o <<".", "C", "R", "T", ".", "H", "e", "a", "d", "e", "r", "s", ".", "b", "a", "s", "e">>
atl_header_id(crt_version) == VCPrefix(crt_version) \o <<".", "A", "T", "L", ".", "H", "e", "a", "d", "e", "r", "s", ".", "b", "a", "s", "e">>
crt_lib_id(crt_version, arch, variant, spectre) ==
    VCPrefix(crt_version) \o <<".", "C", "R", "T", ".">> \o to_crt_package_id_str(arch) \o <<".">>
        \o variant_str(variant) \o (IF spectre THEN <<".", "s", "p", "e", "c", "t", "r", "e", ".", "b", "a", "s", "e">> ELSE <<".", "b", "a", "s", "e">>)
atl_lib_id(crt_version, arch, spectre) ==
    VCPrefix(crt_version) \o <<".", "A", "T", "L", ".">> \o to_atl_package_id_str(arch)
        \o (IF spectre THEN <<".", "S", "p", "e", "c", "t", "r", "e", ".", "b", "a", "s", "e">> ELSE <<".", "b", "a", "s", "e">>)

\* itertools.product(a, b)
product(a, b) ==
    [k \in 1..(Len(a) * Len(b)) |->
        <<a[((k - 1) \div Len(b)) + 1], b[((k - 1) % Len(b)) + 1]>>]

\* win_crt.py:175: no spectre library for this (flag, variant)
SkipSpectre_StoreToo(include_spectre, variant) == ~include_spectre
SkipSpectre(include_spectre, variant) == ~include_spectre \/ variant = "Store"

\* win_crt.py:163-185: the loop body from position k on, d the dict so far
RECURSIVE CrtLibsFrom(_, _, _, _, _)
CrtLibsFrom(idx, opts, crt_version, pairs, st) ==
    IF st.k > Len(pairs) THEN Ok(st.d)
    ELSE LET arch == pairs[st.k][1]
             variant == pairs[st.k][2]
             plain_id == crt_lib_id(crt_version, arch, variant, FALSE)
             plain == grab_payload_from_pyxwin_packages(idx, plain_id, "CrtLibs", crt_version, FALSE)
             spectre_id == crt_lib_id(crt_version, arch, variant, TRUE)
             spectre == grab_payload_from_pyxwin_packages(idx, spectre_id, "CrtLibs", crt_version, TRUE)
         IN IF ~plain.ok THEN plain
            ELSE IF SkipSpectre(opts.include_spectre, variant)
            THEN CrtLibsFrom(idx, opts, crt_version, pairs,
                             [k |-> st.k + 1, d |-> Put(st.d, plain_id, plain.out)])
            ELSE IF ~spectre.ok THEN spectre
            ELSE CrtLibsFrom(idx, opts, crt_version, pairs,
                             [k |-> st.k + 1,
                              d |-> Put(Put(st.d, plain_id, plain.out), spectre_id, spectre.out)])

\* win_crt.py:161: manifest_options.variant == [Variant.ALL]
IsAllVariant_Contains(variant) == \E k \in 1..Len(variant) : variant[k] = "All"
IsAllVariant(variant) == variant = <<"All">>

\* win_crt.py:151-187
get_crt_libs(idx, opts, crt_version) ==
    LET manifest_options_variant ==
            IF IsAllVariant(opts.variant) THEN get_all_variants ELSE opts.variant
    IN CrtLibsFrom(idx, opts, crt_version, product(opts.arch, manifest_options_variant),
                   [k |-> 1, d |-> EmptyDict])

\* win_crt.py:122-146
RECURSIVE AtlLibsFrom(_, _, _, _)
AtlLibsFrom(idx, opts, crt_version, st) ==
    IF st.k > Len(opts.arch) THEN Ok(st.d)
    ELSE LET arch == opts.arch[st.k]
             plain_id == atl_lib_id(crt_version, arch, FALSE)
             plain == grab_payload_from_pyxwin_packages(idx, plain_id, "AtlLibs", crt_version, FALSE)
             spectre_id == atl_lib_id(crt_version, arch, TRUE)
             spectre == grab_payload_from_pyxwin_packages(idx, spectre_id, "AtlLibs", crt_version, TRUE)
         IN IF ~plain.ok THEN plain
            ELSE IF ~opts.include_spectre
            THEN AtlLibsFrom(idx, opts, crt_version,
                             [k |-> st.k + 1, d |-> Put(st.d, plain_id, plain.out)])
            ELSE IF ~spectre.ok THEN spectre
            ELSE AtlLibsFrom(idx, opts, crt_version,
                             [k |-> st.k + 1,
                              d |-> Put(Put(st.d, plain_id, plain.out), spectre_id, spectre.out)])

\* win_crt.py:114-148
get_atl_libs(idx, opts, crt_version) ==
    AtlLibsFrom(idx, opts, crt_version, [k |-> 1, d |-> EmptyDict])

\* win_crt.py:80-85
crt_version_rs_versions(idx) ==
    {Version(extract_version(key).ver) :
        key \in {k \in idx.buildtools[1] : EndsWith(k, <<".", "x", "8", "6", ".", "x", "6", "4">>) /\ extract_version(k).found}}

\* win_crt.py:75-94: the CRT version of the selection, as [ok, err, out]
select_crt_version(idx, opts) ==
    IF idx.buildtools = <<>> THEN Raise("KeyError")
    ELSE IF opts.crt_version # None
    THEN IF Version(opts.crt_version) \notin crt_version_rs_versions(idx)
         THEN Raise("UnsupportedPackageConfigurationError")
         ELSE Ok(Version(opts.crt_version))
    ELSE IF crt_version_rs_versions(idx) = {} THEN Raise("ValueError")
    ELSE Ok(MaxVersion(crt_version_rs_versions(idx)))

\* win_crt.py:68-111
get_toolchain_artifact(idx, opts, artifact_type) ==
    LET chosen == select_crt_version(idx, opts)
        crt_version == chosen.out
        header_id == IF artifact_type = "CrtLibs" THEN crt_header_id(crt_version)
                     ELSE atl_header_id(crt_version)
        header == grab_payload_from_pyxwin_packages(
                      idx, header_id,
                      IF artifact_type = "CrtLibs" THEN "CrtHeaders" ELSE "AtlHeaders",
                      crt_version, FALSE)
        libs == IF artifact_type = "CrtLibs" THEN get_crt_libs(idx, opts, crt_version)
                ELSE get_atl_libs(idx, opts, crt_version)
    IN IF ~chosen.ok THEN chosen
       ELSE IF ~header.ok THEN header
       ELSE IF ~libs.ok THEN libs
       ELSE Ok(Merge(Put(EmptyDict, header_id, header.out), libs.out))

-----------------------------------------------------------------------------
(* win_sdk.py: the SDK part of the selector *)

\* str.replace(a, b) for one character a, and str.replace(sub, "")
replace_char(s, a, b) == [k \in 1..Len(s) |-> IF s[k] = a THEN b ELSE s[k]]
RECURSIVE RemoveFrom(_, _, _)
RemoveFrom(s, sub, k) ==
    IF k > Len(s) THEN <<>>
    ELSE IF k + Len(sub) - 1 <= Len(s) /\ SubSeq(s, k, k + Len(sub) - 1) = sub
    THEN RemoveFrom(s, sub, k + Len(sub))
    ELSE <<s[k]>> \o RemoveFrom(s, sub, k + 1)
remove_all(s, sub) == RemoveFrom(s, sub, 1)

\* win_sdk.py:16-46 calls ManifestOptions.parse_sdk_version: one SDK package,
\* found under its key Win{W}SDK_{version}.
get_sdk_version(idx, opts) ==
    [sdk_key |-> <<"W", "i", "n", "1", "1", "S", "D", "K", "_", "1", "0", ".", "0", ".", "2", "6", "1", "0", "0">>, version |-> <<10, 0, 26100>>]

\* the ManifestPayload of the SDK or UCRT item with this file_name; every
\* payload of an index has its own content, so its sha256 is written as the
\* file name it is listed under
payload_of(idx, file_name) == [file_name |-> file_name, sha256 |-> file_name]

\* manifest_datatypes.py:375-408
from_manifest_payload(manifest_payload, sdk_prefix, kind, target_arch, sdk_version) ==
    LET lowered == text_lower(replace_char(replace_char(manifest_payload.file_name, " ", "_"), "\\", "_"))
        new_file_name == IF kind = "CabFile" THEN remove_all(lowered, <<"i", "n", "s", "t", "a", "l", "l", "e", "r", "s", "_">>)
                         ELSE lowered
    IN [cls |-> "SDKPayload",
        filename |-> IF kind # "CabFile" THEN sdk_prefix \o <<"_">> \o new_file_name
                     ELSE new_file_name,
        kind |-> kind,
        sha256 |-> manifest_payload.sha256,
        target_arch |-> target_arch,
        version |-> version_str(sdk_version)]

\* win_sdk.py:58-63
header_suffixes ==
    {<<"W", "i", "n", "d", "o", "w", "s", " ", "S", "D", "K", " ", "D", "e", "s", "k", "t", "o", "p", " ", "H", "e", "a", "d", "e", "r", "s", " ", "x", "8", "6", "-", "x", "8", "6", "_", "e", "n", "-", "u", "s", ".", "m", "s", "i">>,
     <<"W", "i", "n", "d", "o", "w", "s", " ", "S", "D", "K", " ", "O", "n", "e", "c", "o", "r", "e", "U", "a", "p", " ", "H", "e", "a", "d", "e", "r", "s", " ", "x", "8", "6", "-", "x", "8", "6", "_", "e", "n", "-", "u", "s", ".", "m", "s", "i">>,
     <<"W", "i", "n", "d", "o", "w", "s", " ", "S", "D", "K", " ", "f", "o", "r", " ", "W", "i", "n", "d", "o", "w", "s", " ", "S", "t", "o", "r", "e", " ", "A", "p", "p", "s", " ", "H", "e", "a", "d", "e", "r", "s", "-", "x", "8", "6", "_", "e", "n", "-", "u", "s", ".", "m", "s", "i">>,
     <<"W", "i", "n", "d", "o", "w", "s", " ", "S", "D", "K", " ", "f", "o", "r", " ", "W", "i", "n", "d", "o", "w", "s", " ", "S", "t", "o", "r", "e", " ", "A", "p", "p", "s", " ", "H", "e", "a", "d", "e", "r", "s", " ", "O", "n", "e", "c", "o", "r", "e", "U", "a", "p", "-", "x", "8", "6", "_", "e", "n", "-", "u", "s", ".", "m", "s", "i">>}
arch_header_name(arch) ==
    <<"I", "n", "s", "t", "a", "l", "l", "e", "r", "s", "\\", "W", "i", "n", "d", "o", "w", "s", " ", "S", "D", "K", " ", "D", "e", "s", "k", "t", "o", "p", " ", "H", "e", "a", "d", "e", "r", "s", " ">>
        \o text_lower(to_crt_package_id_str(arch)) \o <<"-", "x", "8", "6", "_", "e", "n", "-", "u", "s", ".", "m", "s", "i">>
arch_lib_name(arch) ==
    <<"I", "n", "s", "t", "a", "l", "l", "e", "r", "s", "\\", "W", "i", "n", "d", "o", "w", "s", " ", "S", "D", "K", " ", "D", "e", "s", "k", "t", "o", "p", " ", "L", "i", "b", "s", " ">>
        \o text_lower(to_crt_package_id_str(arch)) \o <<"-", "x", "8", "6", "_", "e", "n", "-", "u", "s", ".", "m", "s", "i">>
store_libs_suffix == <<"W", "i", "n", "d", "o", "w", "s", " ", "S", "D", "K", " ", "f", "o", "r", " ", "W", "i", "n", "d", "o", "w", "s", " ", "S", "t", "o", "r", "e", " ", "A", "p", "p", "s", " ", "L", "i", "b", "s", "-", "x", "8", "6", "_", "e", "n", "-", "u", "s", ".", "m", "s", "i">>
ucrt_msi_name == <<"U", "n", "i", "v", "e", "r", "s", "a", "l", " ", "C", "R", "T", " ", "H", "e", "a", "d", "e", "r", "s", " ", "L", "i", "b", "r", "a", "r", "i", "e", "s", " ", "a", "n", "d", " ", "S", "o", "u", "r", "c", "e", "s", "-", "x", "8", "6", "_", "e", "n", "-", "u", "s", ".", "m", "s", "i">>

\* win_sdk.py:78-92: the loop over manifest_options.arch from position k on
RECURSIVE ArchHeadersFrom(_, _, _, _, _)
ArchHeadersFrom(idx, opts, sdk, k, d) ==
    IF k > Len(opts.arch) THEN Ok(d)
    ELSE IF arch_header_name(opts.arch[k]) \notin idx.sdk
    THEN Raise("UnsupportedPackageConfigurationError")
    ELSE ArchHeadersFrom(idx, opts, sdk, k + 1,
             Put(d, arch_header_name(opts.arch[k]),
                 from_manifest_payload(payload_of(idx, arch_header_name(opts.arch[k])), sdk.sdk_key,
                                       "SdkHeaders", opts.arch[k], sdk.version)))

\* win_sdk.py:49-93
get_sdk_headers(idx, opts, sdk) ==
    LET common == {p \in idx.sdk : \E suffix \in header_suffixes : EndsWith(p, suffix)}
        header_payloads ==
            [p \in common |->
                from_manifest_payload(payload_of(idx, p), sdk.sdk_key, "SdkHeaders", "all", sdk.version)]
    IN IF Cardinality(common) # Cardinality(header_suffixes)
       THEN Raise("PyxwinMissingPackageError")
       ELSE ArchHeadersFrom(idx, opts, sdk, 1, header_payloads)

\* win_sdk.py:106-120: the loop over manifest_options.arch from position k on
RECURSIVE ArchLibsFrom(_, _, _, _, _)
ArchLibsFrom(idx, opts, sdk, k, d) ==
    IF k > Len(opts.arch) THEN Ok(d)
    ELSE IF arch_lib_name(opts.arch[k]) \notin idx.sdk
    THEN Raise("UnsupportedPackageConfigurationError")
    ELSE ArchLibsFrom(idx, opts, sdk, k + 1,
             Put(d, arch_lib_name(opts.arch[k]),
                 from_manifest_payload(payload_of(idx, arch_lib_name(opts.arch[k])), sdk.sdk_key,
                                       "SdkLibs", opts.arch[k], sdk.version)))

\* win_sdk.py:96-156; the SDK package lists one Store Apps Libs payload at most
get_sdk_libs(idx, opts, sdk) ==
    LET arch_libs == ArchLibsFrom(idx, opts, sdk, 1, EmptyDict)
        store == {p \in idx.sdk : EndsWith(p, store_libs_suffix)}
        store_name == CHOOSE p \in store : TRUE
    IN IF ~arch_libs.ok THEN arch_libs
       ELSE IF store = {} THEN Raise("PyxwinMissingPackageError")
       ELSE IF ~idx.ucrt_present THEN Raise("PyxwinError")
       ELSE IF ucrt_msi_name \notin idx.ucrt THEN Raise("PyxwinError")
       ELSE Ok(Put(Put(arch_libs.out, store_name,
                       from_manifest_payload(payload_of(idx, store_name), sdk.sdk_key, "SdkStoreLibs",
                                             "all", sdk.version)),
                   ucrt_msi_name,
                   from_manifest_payload(payload_of(idx, ucrt_msi_name), sdk.sdk_key, "Ucrt",
                                         "all", sdk.version)))

\* win_sdk.py:159-194
get_cab_files(idx, sdk) ==
    LET cabs == {p \in idx.sdk \cup idx.ucrt : EndsWith(p, <<".", "c", "a", "b">>)}
    IN IF ~idx.ucrt_present THEN Raise("PyxwinError")
       ELSE Ok([p \in cabs |->
                   from_manifest_payload(payload_of(idx, p), sdk.sdk_key, "CabFile", "all", sdk.version)])

\* win_sdk.py:197-225
get_sdk(idx, opts) ==
    LET sdk == get_sdk_version(idx, opts)
        header_payloads == get_sdk_headers(idx, opts, sdk)
        lib_payloads == get_sdk_libs(idx, opts, sdk)
        cab_payloads == get_cab_files(idx, sdk)
    IN IF ~header_payloads.ok THEN header_payloads
       ELSE IF ~lib_payloads.ok THEN lib_payloads
       ELSE IF ~cab_payloads.ok THEN cab_payloads
       ELSE Ok(Merge(Merge(header_payloads.out, lib_payloads.out), cab_payloads.out))

\* vs_manifest.py:147-177: what prune_packages returns or raises
pruned_packages(idx, opts) ==
    LET crt_payloads == get_toolchain_artifact(idx, opts, "CrtLibs")
        atl_payloads == IF opts.include_atl
                        THEN get_toolchain_artifact(idx, opts, "AtlLibs")
                        ELSE Ok(EmptyDict)
        sdk_payloads == get_sdk(idx, opts)
    IN IF ~crt_payloads.ok THEN crt_payloads
       ELSE IF ~atl_payloads.ok THEN atl_payloads
       ELSE IF ~sdk_payloads.ok THEN sdk_payloads
       ELSE Ok(Merge(Merge(crt_payloads.out, atl_payloads.out), sdk_payloads.out))

-----------------------------------------------------------------------------
(* The inputs prune_packages is run on *)

\* the BuildTools dependency keys: two CRT versions, a key of another
\* architecture pair and a key without a version
DepKeyOld == <<"M", "i", "c", "r", "o", "s", "o", "f", "t", ".", "V", "i", "s", "u", "a", "l", "S", "t", "u", "d", "i", "o", ".", "C", "o", "m", "p", "o", "n", "e", "n", "t", ".", "V", "C", ".", "1", "4", ".", "9", ".", "0", ".", "1", ".", "x", "8", "6", ".", "x", "6", "4">>
DepKeyNew == <<"M", "i", "c", "r", "o", "s", "o", "f", "t", ".", "V", "i", "s", "u", "a", "l", "S", "t", "u", "d", "i", "o", ".", "C", "o", "m", "p", "o", "n", "e", "n", "t", ".", "V", "C", ".", "1", "4", ".", "1", "0", ".", "0", ".", "0", ".", "x", "8", "6", ".", "x", "6", "4">>
DepKeyArm == <<"M", "i", "c", "r", "o", "s", "o", "f", "t", ".", "V", "i", "s", "u", "a", "l", "S", "t", "u", "d", "i", "o", ".", "C", "o", "m", "p", "o", "n", "e", "n", "t", ".", "V", "C", ".", "1", "4", ".", "1", "1", ".", "0", ".", "0", ".", "A", "R", "M", "6", "4">>
DepKeyTools == <<"M", "i", "c", "r", "o", "s", "o", "f", "t", ".", "V", "i", "s", "u", "a", "l", "S", "t", "u", "d", "i", "o", ".", "C", "o", "m", "p", "o", "n", "e", "n", "t", ".", "V", "C", ".", "T", "o", "o", "l", "s", ".", "x", "8", "6", ".", "x", "6", "4">>
CrtVersions == {<<14, 9, 0, 1>>, <<14, 10, 0, 0>>}

CrtItems(v) ==
    {crt_header_id(v)}
    \cup {crt_lib_id(v, a, w, FALSE) : a \in Architectures, w \in {"Desktop", "OneCore", "Store"}}
    \cup {crt_lib_id(v, a, w, TRUE) : a \in Architectures, w \in {"Desktop", "OneCore", "Store"}}
AtlItems(v) ==
    {atl_header_id(v)}
    \cup {atl_lib_id(v, a, s) : a \in Architectures, s \in BOOLEAN}
SdkNames ==
    {<<"I", "n", "s", "t", "a", "l", "l", "e", "r", "s", "\\">> \o suffix : suffix \in header_suffixes}
    \cup {arch_header_name(a) : a \in Architectures}
    \cup {arch_lib_name(a) : a \in Architectures}
    \cup {<<"I", "n", "s", "t", "a", "l", "l", "e", "r", "s", "\\">> \o store_libs_suffix,
          <<"I", "n", "s", "t", "a", "l", "l", "e", "r", "s", "\\", "W", "i", "n", "d", "o", "w", "s", " ", "S", "D", "K", " ", "S", "i", "g", "n", "i", "n", "g", " ", "T", "o", "o", "l", "s", "-", "x", "8", "6", "_", "e", "n", "-", "u", "s", ".", "m", "s", "i">>,
          <<"I", "n", "s", "t", "a", "l", "l", "e", "r", "s", "\\", "0", "b", "2", "a", "4", "9", "8", "7", "4", "2", "1", "d", "9", "5", "d", "0", "c", "b", "3", "7", "6", "4", "0", "8", "8", "9", "a", "a", "9", "e", "9", "b", ".", "c", "a", "b">>}
UcrtNames == {ucrt_msi_name, <<"1", "6", "a", "b", "2", "e", "a", "2", "1", "8", "7", "a", "c", "f", "f", "a", "6", "4", "3", "5", "e", "3", "3", "4", "7", "9", "6", "c", "8", "c", "8", "9", ".", "c", "a", "b">>}

SecondDesktopHeaders == <<"R", "e", "d", "i", "s", "t", "\\", "W", "i", "n", "d", "o", "w", "s", " ", "S", "D", "K", " ", "D", "e", "s", "k", "t", "o", "p", " ", "H", "e", "a", "d", "e", "r", "s", " ", "x", "8", "6", "-", "x", "8", "6", "_", "e", "n", "-", "u", "s", ".", "m", "s", "i">>
OnecoreHeaders == <<"I", "n", "s", "t", "a", "l", "l", "e", "r", "s", "\\", "W", "i", "n", "d", "o", "w", "s", " ", "S", "D", "K", " ", "O", "n", "e", "c", "o", "r", "e", "U", "a", "p", " ", "H", "e", "a", "d", "e", "r", "s", " ", "x", "8", "6", "-", "x", "8", "6", "_", "e", "n", "-", "u", "s", ".", "m", "s", "i">>

CabOtherCase == <<"I", "n", "s", "t", "a", "l", "l", "e", "r", "s", "\\", "0", "B", "2", "A", "4", "9", "8", "7", "4", "2", "1", "D", "9", "5", "D", "0", "C", "B", "3", "7", "6", "4", "0", "8", "8", "9", "A", "A", "9", "E", "9", "B", ".", "c", "a", "b">>
CabInstallersPrefix == <<"I", "n", "s", "t", "a", "l", "l", "e", "r", "s", "\\", "1", "6", "a", "b", "2", "e", "a", "2", "1", "8", "7", "a", "c", "f", "f", "a", "6", "4", "3", "5", "e", "3", "3", "4", "7", "9", "6", "c", "8", "c", "8", "9", ".", "c", "a", "b">>
FullIndex ==
    [items |-> UNION {CrtItems(v) \cup AtlItems(v) : v \in CrtVersions},
     nopayload |-> {},
     buildtools |-> <<{DepKeyOld, DepKeyNew, DepKeyArm, DepKeyTools}>>,
     sdk |-> SdkNames,
     ucrt_present |-> TRUE,
     ucrt |-> UcrtNames]
SelIndexes ==
    {FullIndex,
     \* only the older CRT is a dependency of the build tools
     [FullIndex EXCEPT !.buildtools = <<{DepKeyOld, DepKeyArm, DepKeyTools}>>],
     \* no CRT version among the dependencies
     [FullIndex EXCEPT !.buildtools = <<{DepKeyArm, DepKeyTools}>>],
     \* no item under the BuildTools id
     [FullIndex EXCEPT !.buildtools = <<>>],
     \* two items under the BuildTools id, the newer CRT a dependency of the
     \* second only
     [FullIndex EXCEPT !.buildtools = <<{DepKeyOld, DepKeyArm, DepKeyTools},
                                         {DepKeyNew, DepKeyArm, DepKeyTools}>>],
     \* no ATL packages, no Store libraries for ARM, a header package without payload
     [FullIndex EXCEPT
         !.items = @ \ (UNION {AtlItems(v) : v \in CrtVersions}
                         \cup {crt_lib_id(v, "aarch", "Store", FALSE) : v \in CrtVersions}
                         \cup {crt_header_id(<<14, 9, 0, 1>>)}),
         !.nopayload = {crt_header_id(<<14, 9, 0, 1>>)}],
     \* an SDK without the ARM64 headers and without the UCRT package
     [FullIndex EXCEPT !.sdk = @ \ {arch_header_name("aarch64")},
                       !.ucrt_present = FALSE, !.ucrt = {}],
     \* an SDK with two payloads that end in the Desktop Headers suffix
     [FullIndex EXCEPT !.sdk = @ \cup {SecondDesktopHeaders}],
     \* the same without a payload for the OnecoreUap Headers suffix
     [FullIndex EXCEPT !.sdk = (@ \cup {SecondDesktopHeaders}) \ {OnecoreHeaders}],
     \* an SDK with a second cabinet whose name differs in letter case only,
     \* and one named as the UCRT cabinet below Installers\
     [FullIndex EXCEPT !.sdk = @ \cup {CabOtherCase, CabInstallersPrefix}]}

MaxArchs == 2
\* the arch lists of a configuration: runs of up to MaxArchs architectures in
\* the order of the enum, from every architecture on, and a list that repeats one
ArchOrder == <<"x86", "x86_64", "aarch", "aarch64">>
ArchRun(start, n) == [k \in 1..n |-> ArchOrder[((start + k - 2) % Len(ArchOrder)) + 1]]
ArchLists ==
    {ArchRun(start, n) : start \in 1..Len(ArchOrder), n \in 1..MaxArchs}
    \cup {<<"x86", "x86">>}
VariantLists ==
    {<<"All">>, <<"Desktop">>, <<"OneCore">>, <<"Store">>,
     <<"Desktop", "OneCore", "Store">>, <<"Desktop", "Store">>, <<"All", "Desktop">>,
     <<"Desktop", "All">>, <<"All", "All">>}
CrtVersionOptions == {None, <<"1", "4", ".", "9", ".", "0", ".", "1">>, <<"1", "4", ".", "1", "0", ".", "0", ".", "0">>, <<"9", "9", ".", "0", ".", "0", ".", "0">>}
SelCfgs ==
    [arch : ArchLists, variant : VariantLists, crt_version : CrtVersionOptions,
     include_atl : BOOLEAN, include_spectre : BOOLEAN]
DefaultSelCfg ==
    [arch |-> <<"x86_64">>, variant |-> <<"Desktop">>, crt_version |-> None,
     include_atl |-> FALSE, include_spectre |-> FALSE]

NotCalled == Raise("not called")
\* prune_packages(pyxwin_packages, manifest_options) on its own
prune_packages_call ==
    /\ selOut = NotCalled
    /\ selOut' = pruned_packages(selIdx, selCfg)
    /\ UNCHANGED <<selCfg, selIdx, plan>>
    /\ UNCHANGED <<dvVars, runVars, dlVars, redVars, zipVars, optVars, libVars>>

SelIdle ==
    /\ selCfg = DefaultSelCfg
    /\ selIdx = FullIndex
    /\ selOut = NotCalled
\* no package index is loaded: the state of the runs that never reach
\* prune_packages
NoIndex == <<>>
SelUnused ==
    /\ selCfg = DefaultSelCfg
    /\ selIdx = NoIndex
    /\ selOut = NotCalled

\* the manifest item a run's SDK payloads are taken from: the Windows SDK
\* item or the Universal CRT item
Plans == {"sdk", "ucrt"}
SdkCabName == CHOOSE p \in SdkNames : EndsWith(p, <<".", "c", "a", "b">>)
UcrtCabName == CHOOSE p \in UcrtNames : EndsWith(p, <<".", "c", "a", "b">>)
\* download_unpack.py:38
package_dir_name_ByKind(pkg) ==
    (IF pkg.cls = "SDKPayload" /\ pkg.kind # "CabFile" THEN <<"S", "D", "K">>
     ELSE IF pkg.cls = "SDKPayload" THEN <<"C", "A", "B">> ELSE <<"C", "R", "T">>)
        \o <<"_">> \o pkg.version
package_dir_name(pkg) ==
    (IF pkg.cls = "SDKPayload" THEN <<"S", "D", "K">> ELSE <<"C", "R", "T">>) \o <<"_">> \o pkg.version
\* the payloads of a selection that the .vsix, .msi and .cab downloads of a
\* run stand for
\* no payload selected: download_packages is not part of the behaviour
NoPlan == [item |-> "none"]
SelectedPayloads(out, item) ==
    [item |-> item,
     vsix |-> out[crt_lib_id(<<14, 10, 0, 0>>, "x86_64", "Desktop", FALSE)],
     msi |-> IF item = "sdk" THEN out[arch_lib_name("x86_64")] ELSE out[ucrt_msi_name],
     cab |-> IF item = "sdk" THEN out[SdkCabName] ELSE out[UcrtCabName]]

-----------------------------------------------------------------------------
(* Selected payloads, download_packages and unpack_files *)

PayloadIds == 1..MaxPayloads
Suffix(i) == CASE i % 3 = 1 -> ".vsix"
               [] i % 3 = 2 -> ".msi"
               [] OTHER -> ".cab"
\* A selected CRTPayload / SDKPayload: VSIX payloads are CRT packages, MSI and
\* CAB payloads SDK packages. filename is the last component of file_path.
Planned(i) == CASE Suffix(i) = ".vsix" -> plan.vsix
                [] Suffix(i) = ".msi" -> plan.msi
                [] Suffix(i) = ".cab" -> plan.cab
Payload(i) ==
    [url |-> i,
     sha256 |-> [hexdigest(Genuine(i)) EXCEPT !.upper = (i % 2 = 0)],
     kind |-> Planned(i).kind,
     package_dir_name |-> package_dir_name(Planned(i)),
     filename |-> i,
     suffix |-> Suffix(i)]
\* download_unpack.py:39-40: file_path of a payload under cache_dir/downloads/
FilePath(i) == Payload(i).filename

Sel == {selection[k] : k \in 1..Len(selection)}
NoTasks == [i \in PayloadIds |-> "none"]
TaskLive == {"fetching", "created", "opened"}

\* vs_manifest.py:147-177: the selector either raises or returns the payloads.
prune_packages(n) ==
    /\ pc = "indexed"
    /\ IF n = 0
       THEN Fail("select", "UnsupportedPackageConfiguration") /\ UNCHANGED selection
       ELSE /\ selection' = [k \in 1..n |-> k]
            /\ pc' = "selected"
            /\ UNCHANGED <<failedAt, exitCode>>
    /\ UNCHANGED <<run, args, cfg, cache, cache0, httpLog, readLog, writeLog,
                   chanManifest, instIndex>>
    /\ UNCHANGED <<ftask, fraw, wtask, disk, disk0, retPaths, unpackDirs, xtask, reduced>>
    /\ UNCHANGED <<dvVars, fnVars>>

\* download_unpack.py:29-33: one fetch_file_bytes task per selected payload.
download_packages_fetch ==
    /\ pc = "selected"
    /\ pc' = "fetching"
    /\ ftask' = [i \in PayloadIds |-> IF i \in Sel THEN "fetching" ELSE "none"]
    /\ UNCHANGED <<run, args, cfg, exitCode, failedAt, cache, cache0, httpLog,
                   readLog, writeLog, chanManifest, instIndex>>
    /\ UNCHANGED <<selection, fraw, wtask, disk, disk0, retPaths, unpackDirs, xtask, reduced>>
    /\ UNCHANGED <<dvVars, fnVars>>

\* https_client.py:29-45 as run by a task of download_packages.
fetch_file_bytes(i, status, raw) ==
    /\ ftask[i] = "fetching"
    /\ IF status # "200"
       THEN ftask' = [ftask EXCEPT ![i] = "failed"] /\ UNCHANGED fraw
       ELSE /\ ftask' = [ftask EXCEPT ![i] = "done"]
            /\ fraw' = [fraw EXCEPT ![i] = raw]
    /\ UNCHANGED runVars
    /\ UNCHANGED <<selection, wtask, disk, disk0, retPaths, unpackDirs, xtask, reduced>>
    /\ UNCHANGED <<dvVars, fnVars>>

CancelLive(t) == [i \in DOMAIN t |-> IF t[i] \in TaskLive THEN "cancelled" ELSE t[i]]

\* download_unpack.py:30-33: the first TaskGroup ends with an exception.
download_packages_fetch_failed ==
    /\ pc = "fetching"
    /\ \E i \in Sel : ftask[i] = "failed"
    /\ ftask' = CancelLive(ftask)
    /\ Fail("download", "ExceptionGroup")
    /\ UNCHANGED <<run, args, cfg, cache, cache0, httpLog, readLog, writeLog,
                   chanManifest, instIndex>>
    /\ UNCHANGED <<selection, fraw, wtask, disk, disk0, retPaths, unpackDirs, xtask, reduced>>
    /\ UNCHANGED <<dvVars, fnVars>>

\* download_unpack.py:30-33: every fetch task of the first TaskGroup returned.
FetchesJoined_NoWait(t) == \E i \in Sel : t[i] = "done"
FetchesJoined(t) == \A i \in Sel : t[i] = "done"

\* download_unpack.py:35-44: the loop that creates one async_write_bytes task
\* per payload, with file_content.result() as the bytes.
download_packages_write ==
    /\ pc = "fetching"
    /\ FetchesJoined(ftask)
    /\ pc' = "writing"
    /\ wtask' = [i \in PayloadIds |-> IF i \in Sel THEN "created" ELSE "none"]
    /\ UNCHANGED <<run, args, cfg, exitCode, failedAt, cache, cache0, httpLog,
                   readLog, writeLog, chanManifest, instIndex>>
    /\ UNCHANGED <<selection, ftask, fraw, disk, disk0, retPaths, unpackDirs, xtask, reduced>>
    /\ UNCHANGED <<dvVars, fnVars>>

\* utils/aiofiles_wrapper.py:64-65: aiofiles.open(path, "wb")
write_task_open(i) ==
    /\ wtask[i] = "created"
    /\ wtask' = [wtask EXCEPT ![i] = "opened"]
    /\ disk' = [disk EXCEPT ![FilePath(i)] = FileOf(<<>>)]
    /\ UNCHANGED runVars
    /\ UNCHANGED <<selection, ftask, fraw, disk0, retPaths, unpackDirs, xtask, reduced>>
    /\ UNCHANGED <<dvVars, fnVars>>

\* utils/aiofiles_wrapper.py:66: fp.write(raw_bytes) and close
write_task_write(i) ==
    /\ wtask[i] = "opened"
    /\ wtask' = [wtask EXCEPT ![i] = "done"]
    /\ disk' = [disk EXCEPT ![FilePath(i)] = FileOf(fraw[i])]
    /\ UNCHANGED runVars
    /\ UNCHANGED <<selection, ftask, fraw, disk0, retPaths, unpackDirs, xtask, reduced>>
    /\ UNCHANGED <<dvVars, fnVars>>

\* download_unpack.py:36-44: every write task of the second TaskGroup returned.
WritesJoined_NoWait(t) == \A i \in Sel : t[i] # "none"
WritesJoined(t) == \A i \in Sel : t[i] = "done"

\* download_unpack.py:46
download_packages_return ==
    /\ pc = "writing"
    /\ WritesJoined(wtask)
    /\ pc' = "downloaded"
    /\ retPaths' = [k \in 1..Len(selection) |-> FilePath(selection[k])]
    /\ UNCHANGED <<run, args, cfg, exitCode, failedAt, cache, cache0, httpLog,
                   readLog, writeLog, chanManifest, instIndex>>
    /\ UNCHANGED <<selection, ftask, fraw, wtask, disk, disk0, unpackDirs, xtask, reduced>>
    /\ UNCHANGED <<dvVars, fnVars>>

RetPaths == {retPaths[k] : k \in 1..Len(retPaths)}

\* download_unpack.py:58: the extractor a downloaded path is handed to
Extractor(i) == IF Suffix(i) = ".vsix" THEN "vsix" ELSE "none"

\* download_unpack.py:50-65: the loop over file_paths; extract_location is
\* created for every path, an extraction is queued for .vsix paths only.
unpack_files_dispatch ==
    /\ pc = "downloaded"
    /\ pc' = "unpacking"
    /\ unpackDirs' = unpackDirs \cup RetPaths
    /\ xtask' = [i \in PayloadIds |->
                    IF i \in RetPaths /\ Extractor(i) # "none" THEN "pending" ELSE "none"]
    /\ UNCHANGED <<run, args, cfg, exitCode, failedAt, cache, cache0, httpLog,
                   readLog, writeLog, chanManifest, instIndex>>
    /\ UNCHANGED <<selection, ftask, fraw, wtask, disk, disk0, retPaths, reduced>>
    /\ UNCHANGED <<dvVars, fnVars>>

\* download_unpack.py:60-66 and :69-71: asyncio.to_thread(_extract_vsix, ...)
\* starts in a worker thread
extract_begin(i) ==
    /\ pc = "unpacking"
    /\ xtask[i] = "pending"
    /\ xtask' = [xtask EXCEPT ![i] = "running"]
    /\ UNCHANGED runVars
    /\ UNCHANGED <<selection, ftask, fraw, wtask, disk, disk0, retPaths, unpackDirs, reduced>>
    /\ UNCHANGED <<dvVars, fnVars>>

\* download_unpack.py:69-71: ZipFile(...).extractall ends. The genuine bytes
\* are an archive; other bytes may or may not be one (BadZipFile).
extract_end(i, ok) ==
    /\ xtask[i] = "running"
    /\ disk[FilePath(i)].data = Genuine(i) => ok
    /\ xtask' = [xtask EXCEPT ![i] = IF ok THEN "done" ELSE "failed"]
    /\ UNCHANGED runVars
    /\ UNCHANGED <<selection, ftask, fraw, wtask, disk, disk0, retPaths, unpackDirs, reduced>>
    /\ UNCHANGED <<dvVars, fnVars>>

\* download_unpack.py:66: gather raises the first exception; the worker threads
\* already running go on, the ones not started are cancelled.
unpack_files_failed ==
    /\ pc = "unpacking"
    /\ \E i \in PayloadIds : xtask[i] = "failed"
    /\ xtask' = [i \in PayloadIds |-> IF xtask[i] = "pending" THEN "cancelled" ELSE xtask[i]]
    /\ Fail("unpack", "BadZipFile")
    /\ UNCHANGED <<run, args, cfg, cache, cache0, httpLog, readLog, writeLog,
                   chanManifest, instIndex>>
    /\ UNCHANGED <<selection, ftask, fraw, wtask, disk, disk0, retPaths, unpackDirs, reduced>>
    /\ UNCHANGED <<dvVars, fnVars>>

\* download_unpack.py:66 and wincrt_cmd.py:61-64: gather returns, unpack_files
\* returns and `download` ends; the process exits with code 0.
unpack_files_return ==
    /\ pc = "unpacking"
    /\ \A i \in PayloadIds : xtask[i] \in {"none", "done"}
    /\ pc' = "done"
    /\ exitCode' = 0
    /\ UNCHANGED <<run, args, cfg, failedAt, cache, cache0, httpLog, readLog, writeLog,
                   chanManifest, instIndex>>
    /\ UNCHANGED dlVars
    /\ UNCHANGED <<dvVars, fnVars>>

\* The process ended; the command is run again on the same cache directory.
\* A new process starts from the module-level defaults (wincrt_cmd.py:31).
next_run ==
    /\ pc \in {"exit", "failed", "indexed"}
    /\ run < MaxRuns
    /\ run' = run + 1
    /\ pc' = "start"
    /\ args' = NoArgs
    /\ cfg' = DefaultOptions
    /\ exitCode' = 0
    /\ failedAt' = NoFailure
    /\ httpLog' = <<>>
    /\ readLog' = {}
    /\ writeLog' = <<>>
    /\ chanManifest' = NoDoc
    /\ instIndex' = NoDoc
    /\ cache0' = cache
    /\ UNCHANGED cache
    /\ UNCHANGED <<dvVars, dlVars, fnVars>>

-----------------------------------------------------------------------------
(* reduce_crt_files and reduce_sdk_files (msft_file_operations.py:179-233) *)

\* the keys of crt_subdirectories and of sdk_subdirectories
KeptNames(kind) ==
    IF kind = "CRT" THEN {"include", "lib", "src", "crt"}
    ELSE {"include", "lib", "source", "bin"}

\* Files an unpack tree may hold, as paths below unpack/{pkg}/: a.vsix and
\* b.vsix are extract locations of two packages.
TreePaths ==
    {<<"a.vsix", "include", "f.h">>,
     <<"b.vsix", "include", "f.h">>,
     <<"a.vsix", "include", "lib", "f.h">>,
     <<"a.vsix", "lib", "f.h">>,
     <<"a.vsix", "bin", "f.h">>,
     <<"a.vsix", "doc", "f.h">>}
UnpackTrees == UNION {[files -> {0, MaxBlob}] : files \in SUBSET TreePaths}
NoTree == <<>>

IsPrefix(d, path) == Len(d) < Len(path) /\ SubSeq(path, 1, Len(d)) = d
\* the directories of a tree: every proper prefix of a file path
DirsOf(tree) ==
    {SubSeq(path, 1, n) : path \in DOMAIN tree, n \in 1..2} \cup
    {SubSeq(path, 1, Len(path) - 1) : path \in DOMAIN tree}
\* p.name
PathName(path) == path[Len(path)]
\* rglob("*") filtered to directories with a kept name (:195-198, :225-228)
KeptDirs(tree, kind) == {d \in DirsOf(tree) : PathName(d) \in KeptNames(kind)}
\* where copytree(from_dir, to_dir) puts the file `path` of from_dir
CopyTarget(from_dir, path) ==
    <<PathName(from_dir)>> \o SubSeq(path, Len(from_dir) + 1, Len(path))

\* :186-198: the output directories are made and from_dirs collected
reduce_files_walk ==
    /\ redPc = "idle"
    /\ fromDirs' = KeptDirs(unpackTree, redKind)
    /\ redPc' = "copying"
    /\ UNCHANGED <<redKind, unpackTree, reducedTree, copyLog>>
    /\ UNCHANGED <<dvVars, runVars, dlVars, selVars, zipVars, optVars, libVars>>

\* :200-202: shutil.copytree(from_dir, to_dir, dirs_exist_ok=True) for the
\* next from_dir, in the order rglob listed them (any order).
copytree(from_dir) ==
    /\ redPc = "copying"
    /\ from_dir \in fromDirs
    /\ LET files == {path \in DOMAIN unpackTree : IsPrefix(from_dir, path)}
           targets == {CopyTarget(from_dir, path) : path \in files}
           source(t) == CHOOSE path \in files : CopyTarget(from_dir, path) = t
       IN /\ reducedTree' = [t \in DOMAIN reducedTree \cup targets |->
                               IF t \in targets THEN unpackTree[source(t)]
                               ELSE reducedTree[t]]
          /\ copyLog' = copyLog \cup {<<path, CopyTarget(from_dir, path)>> : path \in files}
    /\ fromDirs' = fromDirs \ {from_dir}
    /\ UNCHANGED <<redKind, unpackTree, redPc>>
    /\ UNCHANGED <<dvVars, runVars, dlVars, selVars, zipVars, optVars, libVars>>

\* the loop over from_dirs is over
reduce_files_return ==
    /\ redPc = "copying"
    /\ fromDirs = {}
    /\ redPc' = "done"
    /\ UNCHANGED <<redKind, unpackTree, reducedTree, fromDirs, copyLog>>
    /\ UNCHANGED <<dvVars, runVars, dlVars, selVars, zipVars, optVars, libVars>>

RedIdle ==
    /\ redKind = "CRT"
    /\ unpackTree = NoTree /\ reducedTree = NoTree
    /\ fromDirs = {} /\ copyLog = {}
    /\ redPc = "idle"

-----------------------------------------------------------------------------
(* The VSIX extractors *)

\* member paths an archive may hold
ZipNames ==
    {<<"[", "C", "o", "n", "t", "e", "n", "t", "_", "T", "y", "p", "e", "s", "]", ".", "x", "m", "l">>,
     <<"m", "a", "n", "i", "f", "e", "s", "t", ".", "j", "s", "o", "n">>,
     <<"C", "o", "n", "t", "e", "n", "t", "s", "/", "V", "C", "/", "T", "o", "o", "l", "s", "/", "M", "S", "V", "C", "/", "1", "4", ".", "1", "0", "/", "i", "n", "c", "l", "u", "d", "e", "/", "a", ".", "h">>,
     <<"C", "o", "n", "t", "e", "n", "t", "s", "/", "V", "C", "/", "T", "o", "o", "l", "s", "/", "M", "S", "V", "C", "/", "1", "4", ".", "1", "0", "/", "l", "i", "b", "/", "x", "6", "4", "/", "a", ".", "l", "i", "b">>,
     <<"C", "o", "n", "t", "e", "n", "t", "s", "/", "V", "C", "/", "T", "o", "o", "l", "s", "/", "M", "S", "V", "C", "/", "1", "4", ".", "1", "0", "/", "L", "i", "b", "/", "A", ".", "L", "I", "B">>,
     <<"C", "o", "n", "t", "e", "n", "t", "s", "/", "V", "C", "/", "T", "o", "o", "l", "s", "/", "M", "S", "V", "C", "/", "1", "4", ".", "1", "0", "/", "b", "i", "n", "/", "c", "a", "l", "i", "b", "r", "a", "t", "e", ".", "e", "x", "e">>,
     <<"C", "o", "n", "t", "e", "n", "t", "s", "/", "V", "C", "/", "T", "o", "o", "l", "s", "/", "M", "S", "V", "C", "/", "1", "4", ".", "1", "0", "/", "c", "r", "t", "/", "s", "r", "c", "/", "a", ".", "c">>}
required_dirs == {<<"l", "i", "b">>, <<"s", "r", "c">>, <<"i", "n", "c", "l", "u", "d", "e">>, <<"c", "r", "t">>}

\* msft_file_operations.py:154-161
files_to_extract(namelist) ==
    {archive_path \in namelist :
        \E required_dir \in required_dirs : Contains(required_dir, archive_path)}

\* msft_file_operations.py:146-161, _extract_vsix
msft_extract_vsix ==
    /\ zipPc = "idle"
    /\ zipWritten' = files_to_extract(zipMembers)
    /\ zipPc' = "msft_file_operations"
    /\ UNCHANGED zipMembers
    /\ UNCHANGED <<dvVars, runVars, dlVars, selVars, redVars, optVars, libVars>>

\* download_unpack.py:69-71, _extract_vsix as unpack_files runs it:
\* zip_ref.extractall(extract_location)
pipeline_extract_vsix ==
    /\ zipPc = "idle"
    /\ zipWritten' = zipMembers
    /\ zipPc' = "download_unpack"
    /\ UNCHANGED zipMembers
    /\ UNCHANGED <<dvVars, runVars, dlVars, selVars, redVars, optVars, libVars>>

\* file_io.py:56-64, extract_vsix: zip_ref.extractall(extract_location)
file_io_extract_vsix ==
    /\ zipPc = "idle"
    /\ zipWritten' = zipMembers
    /\ zipPc' = "file_io"
    /\ UNCHANGED zipMembers
    /\ UNCHANGED <<dvVars, runVars, dlVars, selVars, redVars, optVars, libVars>>

ZipIdle == zipMembers = {} /\ zipWritten = {} /\ zipPc = "idle"

-----------------------------------------------------------------------------
(* ManifestOptions (manifest_datatypes.py:125-157), a pydantic model with  *)
(* validate_assignment=True                                                *)

NoObject == <<>>
Fields == {"arch", "variant", "crt_version", "sdk_version", "include_atl"}
\* values a caller may pass for a field
FieldInputs(field) ==
    CASE field = "arch" -> {<<>>, <<"x86_64">>, <<"x86", "aarch64">>, <<"mips">>}
      [] field = "variant" -> {<<>>, <<"Desktop">>, <<"All">>, <<"Phone">>}
      [] field = "crt_version" -> {None, <<"1", "4", ".", "1", "0", ".", "0", ".", "0">>, <<"1", "4", ".", "1", "0">>, <<"l", "a", "t", "e", "s", "t">>}
      [] field = "sdk_version" -> {None, <<"W", "i", "n", "1", "1", "S", "D", "K", "_", "1", "0", ".", "0", ".", "2", "6", "1", "0", "0">>, <<"1", "0", ".", "0", ".", "2", "6", "1", "0", "0">>}
      [] field = "include_atl" -> {TRUE, FALSE}

\* Field(pattern=r"^\d+\.\d+\.\d+\.\d+$")
MatchesCrtPattern(s) ==
    Len(split_dot(s)) = 4 /\ \A k \in 1..4 : isdigit(split_dot(s)[k])
\* Field(pattern=r"^Win\d+SDK_\d+\.\d+\.\d+$")
MatchesSdkPattern(s) ==
    \E n \in 4..Len(s) :
        /\ SubSeq(s, 1, 3) = <<"W", "i", "n">>
        /\ isdigit(SubSeq(s, 4, n))
        /\ SubSeq(s, n + 1, n + 4) = <<"S", "D", "K", "_">>
        /\ LET rest == split_dot(SubSeq(s, n + 5, Len(s)))
           IN Len(rest) = 3 /\ \A k \in 1..3 : isdigit(rest[k])

\* what pydantic accepts for a field: list[Architecture], list[Variant],
\* str | None with a pattern, bool
FieldValid(field, value) ==
    CASE field = "arch" -> \A k \in 1..Len(value) : value[k] \in Architectures \cup {"all"}
      [] field = "variant" -> \A k \in 1..Len(value) : value[k] \in Variants
      [] field = "crt_version" -> value = None \/ MatchesCrtPattern(value)
      [] field = "sdk_version" -> value = None \/ MatchesSdkPattern(value)
      [] field = "include_atl" -> value \in BOOLEAN

\* :140-157
get_default_manifest_options ==
    [arch |-> <<"x86_64">>, variant |-> <<"Desktop">>, crt_version |-> None,
     sdk_version |-> None, include_atl |-> FALSE]

\* wincrt_cmd.py:31: manifest_options = ManifestOptions.get_default_manifest_options()
ManifestOptions_default ==
    /\ mo = NoObject
    /\ mo' = get_default_manifest_options
    /\ moErr' = "none"
    /\ UNCHANGED <<dvVars, runVars, dlVars, selVars, redVars, zipVars, libVars>>

\* ManifestOptions(arch=..., variant=..., ...): every field is validated
ManifestOptions_new(values) ==
    /\ mo = NoObject
    /\ IF \A field \in Fields : FieldValid(field, values[field])
       THEN mo' = values /\ moErr' = "none"
       ELSE moErr' = "ValidationError" /\ UNCHANGED mo
    /\ UNCHANGED <<dvVars, runVars, dlVars, selVars, redVars, zipVars, libVars>>

\* manifest_options.<field> = value (wincrt_cmd.py:103-113): with
\* validate_assignment the value is validated before it is stored
ManifestOptions_setattr(field, value) ==
    /\ mo # NoObject
    /\ IF FieldValid(field, value)
       THEN mo' = [mo EXCEPT ![field] = value] /\ moErr' = "none"
       ELSE moErr' = "ValidationError" /\ UNCHANGED mo
    /\ UNCHANGED <<dvVars, runVars, dlVars, selVars, redVars, zipVars, libVars>>

OptIdle == mo = NoObject /\ moErr = "none"

-----------------------------------------------------------------------------
(* multi_extract_msi_async and multi_extract_vsix_async: every extraction  *)
(* is handed to a ThreadPoolExecutor with loop.run_in_executor, the         *)
(* futures are gathered, and the `with` block of the executor is left.      *)
(* A work item is "queued", "running", "done" or "failed".                  *)

\* files handed to one call
MaxFiles == 5
ExKinds == {"msft_msi", "msft_vsix", "file_io_msi"}

\* ThreadPoolExecutor(max_workers=4)
max_workers_PerFile == MaxFiles + 1
max_workers == 4

Executing(t) == {i \in 1..Len(t) : t[i] = "running"}

\* the for loop: loop.run_in_executor(executor, _extract_*, file_path,
\* extract_location) for every tuple, then `await asyncio.gather(*tasks)`
multi_extract_async(kind, n) ==
    /\ exPc = "idle"
    /\ exKind' = kind
    /\ exTask' = [i \in 1..n |-> "queued"]
    /\ exPc' = "gather"
    /\ UNCHANGED <<exErr, exPeak>>
    /\ UNCHANGED <<dvVars, runVars, dlVars, selVars, redVars, zipVars, optVars, canVars>>

\* a worker thread of the pool takes the oldest queued work item; the pool
\* never has more than max_workers threads
worker_start(i) ==
    /\ exPc \in {"gather", "shutdown"}
    /\ exTask[i] = "queued"
    /\ \A j \in 1..(i - 1) : exTask[j] # "queued"
    /\ Cardinality(Executing(exTask)) < max_workers
    /\ exTask' = [exTask EXCEPT ![i] = "running"]
    /\ exPeak' = IF Cardinality(Executing(exTask')) > exPeak
                 THEN Cardinality(Executing(exTask')) ELSE exPeak
    /\ UNCHANGED <<exKind, exPc, exErr>>
    /\ UNCHANGED <<dvVars, runVars, dlVars, selVars, redVars, zipVars, optVars, canVars>>

\* _extract_msi / _extract_vsix / extract_msi returns or raises in its thread
worker_end(i, ok) ==
    /\ exPc \in {"gather", "shutdown"}
    /\ exTask[i] = "running"
    /\ exTask' = [exTask EXCEPT ![i] = IF ok THEN "done" ELSE "failed"]
    /\ UNCHANGED <<exKind, exPc, exErr, exPeak>>
    /\ UNCHANGED <<dvVars, runVars, dlVars, selVars, redVars, zipVars, optVars, canVars>>

\* asyncio.gather raises the first exception of its futures; the other
\* futures are not cancelled
gather_raise ==
    /\ exPc = "gather"
    /\ \E i \in 1..Len(exTask) : exTask[i] = "failed"
    /\ exPc' = "shutdown"
    /\ exErr' = "error"
    /\ UNCHANGED <<exKind, exTask, exPeak>>
    /\ UNCHANGED <<dvVars, runVars, dlVars, selVars, redVars, zipVars, optVars, canVars>>

\* asyncio.gather returns when every future has a result
gather_return ==
    /\ exPc = "gather"
    /\ \A i \in 1..Len(exTask) : exTask[i] = "done"
    /\ exPc' = "shutdown"
    /\ UNCHANGED <<exKind, exTask, exErr, exPeak>>
    /\ UNCHANGED <<dvVars, runVars, dlVars, selVars, redVars, zipVars, optVars, canVars>>

\* ThreadPoolExecutor.__exit__ is shutdown(wait=True): it joins the worker
\* threads, which end when the queue is empty and no item is running
ExecutorJoined_NoWait(t) == TRUE
ExecutorJoined(t) == \A i \in 1..Len(t) : t[i] \in {"done", "failed"}

\* the `with` block is left and the coroutine returns or raises
executor_exit ==
    /\ exPc = "shutdown"
    /\ ExecutorJoined(exTask)
    /\ exPc' = "returned"
    /\ UNCHANGED <<exKind, exTask, exErr, exPeak>>
    /\ UNCHANGED <<dvVars, runVars, dlVars, selVars, redVars, zipVars, optVars, canVars>>

ExIdle ==
    /\ exKind = "none" /\ exTask = <<>>
    /\ exPc = "idle" /\ exErr = "none" /\ exPeak = 0

-----------------------------------------------------------------------------
(* SDKPayload.from_manifest_payload on its own *)

\* manifest file names: up to MaxParts of these parts in a row
MaxParts == 3
NameParts ==
    {<<"I", "n", "s", "t", "a", "l", "l", "e", "r", "s", "\\">>,
     <<"i", "n", "s", "t", "a", "l", "l", "e", "r", "s", "_">>,
     <<"S", "D", "K", " ">>,
     <<"a", ".", "c", "a", "b">>}
RECURSIVE NamesOf(_)
NamesOf(n) == IF n = 0 THEN {<<>>} ELSE {a \o b : a \in NameParts, b \in NamesOf(n - 1)}
FileNames == UNION {NamesOf(n) : n \in 1..MaxParts}
CanKinds == {"CabFile", "SdkHeaders", "SdkLibs"}

NotBuilt == [cls |-> "none"]
from_manifest_payload_call ==
    /\ canOut = NotBuilt
    /\ canOut' = from_manifest_payload(canIn.manifest_payload, canIn.sdk_prefix,
                                       canIn.kind, "all", <<10, 0, 26100>>)
    /\ UNCHANGED canIn
    /\ UNCHANGED <<dvVars, runVars, dlVars, selVars, redVars, zipVars, optVars, exVars>>

CanIdle == canIn = NotBuilt /\ canOut = NotBuilt
LibIdle == ExIdle /\ CanIdle

-----------------------------------------------------------------------------
(* Specifications *)

DVIdle ==
    /\ dvFiles = <<>> /\ dvTask = <<>> /\ dvRaw = <<>>
    /\ dvDisk = <<>> /\ dvDisk0 = <<>>
    /\ dvGroup = "idle" /\ dvErrors = <<>>

NoDisk == [i \in PayloadIds |-> NoFile]
\* downloads/ as an earlier successful run with genuine servers left it
OldDisk == [i \in PayloadIds |-> FileOf(Genuine(i))]

DlIdle ==
    /\ selection = <<>>
    /\ ftask = NoTasks /\ wtask = NoTasks /\ xtask = NoTasks
    /\ fraw = [i \in PayloadIds |-> <<>>]
    /\ disk0 = disk
    /\ retPaths = <<>>
    /\ unpackDirs = {}
    /\ reduced = {}

\* The cache as earlier runs of every accepted (version, channel) left it.
FullCache ==
    [p \in Pairs |->
        IF GateRejects(p[1], p[2])
        THEN [chan |-> NoDoc, inst |-> NoDoc]
        ELSE [chan |-> Doc(Url("channel", p[1], p[2]), "ok"),
              inst |-> Doc(Url("installer", p[1], p[2]), "ok")]]

\* multi_download_and_validate alone
InitDV ==
    /\ DVInit
    /\ run = 0 /\ RunReset
    /\ cache = EmptyCache /\ cache0 = cache
    /\ disk = NoDisk /\ DlIdle
    /\ SelUnused
    /\ plan = NoPlan
    /\ RedIdle
    /\ ZipIdle /\ OptIdle /\ LibIdle
SpecDV == InitDV /\ [][DVNext]_vars

\* prune_packages alone, on every configuration and package index
InitSelect ==
    /\ DVIdle
    /\ run = 0 /\ RunReset
    /\ cache = EmptyCache /\ cache0 = cache
    /\ disk = NoDisk /\ DlIdle
    /\ selCfg \in SelCfgs /\ selIdx \in SelIndexes /\ selOut = NotCalled
    /\ plan = NoPlan
    /\ RedIdle
    /\ ZipIdle /\ OptIdle /\ LibIdle
SpecSelect == InitSelect /\ [][prune_packages_call]_vars

\* app_callback and the manifest loads, run after run on one cache directory;
\* the stages after the loads touch neither the manifest files nor their URLs.
InitCache ==
    /\ DVIdle
    /\ run = 1 /\ RunReset
    /\ cache = EmptyCache /\ cache0 = cache
    /\ disk = NoDisk /\ DlIdle
    /\ SelUnused
    /\ plan = NoPlan
    /\ RedIdle
    /\ ZipIdle /\ OptIdle /\ LibIdle
NextCache ==
    \/ \E a \in ArgSet : app_callback(a)
    \/ \E status \in Statuses, shape \in ChanShapes : load_channel_manifest(status, shape)
    \/ \E status \in Statuses, shape \in InstShapes : load_installer_manifest(status, shape)
    \/ next_run
SpecCache == InitCache /\ [][NextCache]_vars

\* one run of `pyxwin wincrt download`
Init ==
    /\ DVIdle
    /\ run = 1 /\ RunReset
    /\ cache \in {EmptyCache, FullCache} /\ cache0 = cache
    /\ disk \in {NoDisk, OldDisk} /\ DlIdle
    /\ SelIdle
    /\ plan = SelectedPayloads(pruned_packages(selIdx, selCfg).out, "sdk")
    /\ RedIdle
    /\ ZipIdle /\ OptIdle /\ LibIdle
Next ==
    \/ \E a \in ArgSet : app_callback(a)
    \/ \E status \in Statuses, shape \in ChanShapes : load_channel_manifest(status, shape)
    \/ \E status \in Statuses, shape \in InstShapes : load_installer_manifest(status, shape)
    \/ \E n \in 0..MaxPayloads : prune_packages(n)
    \/ download_packages_fetch
    \/ \E i \in PayloadIds, status \in Statuses, genuine \in BOOLEAN :
          fetch_file_bytes(i, status, IF genuine THEN Genuine(i) ELSE Corrupt(i))
    \/ download_packages_fetch_failed
    \/ download_packages_write
    \/ \E i \in PayloadIds : write_task_open(i)
    \/ \E i \in PayloadIds : write_task_write(i)
    \/ download_packages_return
    \/ unpack_files_dispatch
    \/ \E i \in PayloadIds : extract_begin(i)
    \/ \E i \in PayloadIds, ok \in BOOLEAN : extract_end(i, ok)
    \/ unpack_files_failed
    \/ unpack_files_return
Spec == Init /\ [][Next]_vars

\* download_packages and unpack_files of one run whose manifests were read
\* from the cache, with the SDK payloads taken from either item
IndexedRun ==
    /\ pc = "indexed"
    /\ args = NoArgs
    /\ cfg = DefaultOptions
    /\ exitCode = 0
    /\ failedAt = NoFailure
    /\ httpLog = <<>>
    /\ readLog = {<<DestKey(cfg), "chan">>, <<DestKey(cfg), "inst">>}
    /\ writeLog = <<(<<DestKey(cfg), "chan">>)>>
    /\ chanManifest = FullCache[DestKey(cfg)].chan
    /\ instIndex = FullCache[DestKey(cfg)].inst
InitDownload ==
    /\ DVIdle
    /\ run = 1 /\ IndexedRun
    /\ cache = FullCache /\ cache0 = cache
    /\ disk \in {NoDisk, OldDisk} /\ DlIdle
    /\ SelIdle
    /\ plan \in {SelectedPayloads(pruned_packages(selIdx, selCfg).out, item) : item \in Plans}
    /\ RedIdle
    /\ ZipIdle /\ OptIdle /\ LibIdle
NextDownload ==
    \/ \E n \in 0..MaxPayloads : prune_packages(n)
    \/ download_packages_fetch
    \/ \E i \in PayloadIds, status \in Statuses, genuine \in BOOLEAN :
          fetch_file_bytes(i, status, IF genuine THEN Genuine(i) ELSE Corrupt(i))
    \/ download_packages_fetch_failed
    \/ download_packages_write
    \/ \E i \in PayloadIds : write_task_open(i)
    \/ \E i \in PayloadIds : write_task_write(i)
    \/ download_packages_return
    \/ unpack_files_dispatch
    \/ \E i \in PayloadIds : extract_begin(i)
    \/ \E i \in PayloadIds, ok \in BOOLEAN : extract_end(i, ok)
    \/ unpack_files_failed
    \/ unpack_files_return
SpecDownload == InitDownload /\ [][NextDownload]_vars

\* a reducer alone, on every unpack tree
InitReduce ==
    /\ DVIdle
    /\ run = 0 /\ RunReset
    /\ cache = EmptyCache /\ cache0 = cache
    /\ disk = NoDisk /\ DlIdle
    /\ SelUnused
    /\ plan = NoPlan
    /\ redKind \in {"CRT", "SDK"}
    /\ unpackTree \in UnpackTrees /\ reducedTree = NoTree
    /\ fromDirs = {} /\ copyLog = {}
    /\ redPc = "idle"
    /\ ZipIdle /\ OptIdle /\ LibIdle
NextReduce ==
    \/ reduce_files_walk
    \/ \E from_dir \in fromDirs : copytree(from_dir)
    \/ reduce_files_return
SpecReduce == InitReduce /\ [][NextReduce]_vars

\* the three VSIX extractors, each on every archive
InitVsix ==
    /\ DVIdle
    /\ run = 0 /\ RunReset
    /\ cache = EmptyCache /\ cache0 = cache
    /\ disk = NoDisk /\ DlIdle
    /\ SelUnused
    /\ plan = NoPlan
    /\ RedIdle /\ OptIdle /\ LibIdle
    /\ zipMembers \in SUBSET ZipNames /\ zipWritten = {} /\ zipPc = "idle"
NextVsix ==
    \/ msft_extract_vsix
    \/ pipeline_extract_vsix
    \/ file_io_extract_vsix
SpecVsix == InitVsix /\ [][NextVsix]_vars

\* construction of and assignment to a ManifestOptions object
InitOptions ==
    /\ DVIdle
    /\ run = 0 /\ RunReset
    /\ cache = EmptyCache /\ cache0 = cache
    /\ disk = NoDisk /\ DlIdle
    /\ SelUnused
    /\ plan = NoPlan
    /\ RedIdle /\ ZipIdle /\ OptIdle /\ LibIdle
NextOptions ==
    \/ ManifestOptions_default
    \/ \E values \in [arch : FieldInputs("arch"), variant : FieldInputs("variant"),
                      crt_version : FieldInputs("crt_version"),
                      sdk_version : FieldInputs("sdk_version"),
                      include_atl : FieldInputs("include_atl")] :
          ManifestOptions_new(values)
    \/ \E field \in Fields : \E value \in FieldInputs(field) :
          ManifestOptions_setattr(field, value)
SpecOptions == InitOptions /\ [][NextOptions]_vars


\* one call of a multi-extract function, on up to MaxFiles files
InitExtract ==
    /\ DVIdle
    /\ run = 0 /\ RunReset
    /\ cache = EmptyCache /\ cache0 = cache
    /\ disk = NoDisk /\ DlIdle
    /\ SelUnused
    /\ plan = NoPlan
    /\ RedIdle /\ ZipIdle /\ OptIdle /\ LibIdle
NextExtract ==
    \/ \E kind \in ExKinds, n \in 0..MaxFiles : multi_extract_async(kind, n)
    \/ \E i \in 1..Len(exTask) : worker_start(i)
    \/ \E i \in 1..Len(exTask), ok \in BOOLEAN : worker_end(i, ok)
    \/ gather_raise
    \/ gather_return
    \/ executor_exit
SpecExtract == InitExtract /\ [][NextExtract]_vars

\* from_manifest_payload on every file name of FileNames
InitCanon ==
    /\ DVIdle
    /\ run = 0 /\ RunReset
    /\ cache = EmptyCache /\ cache0 = cache
    /\ disk = NoDisk /\ DlIdle
    /\ SelUnused
    /\ plan = NoPlan
    /\ RedIdle /\ ZipIdle /\ OptIdle /\ ExIdle
    /\ canIn \in [manifest_payload : [file_name : FileNames, sha256 : {0}],
                  sdk_prefix : {get_sdk_version(selIdx, selCfg).sdk_key},
                  kind : CanKinds]
    /\ canOut = NotBuilt
SpecCanon == InitCanon /\ [][from_manifest_payload_call]_vars

-----------------------------------------------------------------------------
(* Claims about the hashed file writer (SpecDV) *)

DVPath(i) == dvFiles[i].path
DVReceived(i) == dvRaw[i] # <<>>
DVHashEqual(i) == lower(dvFiles[i].sha256) = hexdigest(dvRaw[i][1])
DVErrorOf(i) == {dvErrors[k].err : k \in {k \in 1..Len(dvErrors) : dvErrors[k].task = i}}

\* C1: download_and_validate writes the fetched bytes to path only when their
\* SHA-256 equals expected_sha256, compared without regard to letter case; on
\* a mismatch it fails with a Download error whose status is null and the
\* file at path is as it was before the call; after a successful return the
\* bytes on disk hash to expected_sha256.
C1_HashGuardsWrite ==
    \A i \in DVTasks :
        /\ dvDisk[DVPath(i)] # dvDisk0[DVPath(i)] => DVReceived(i) /\ DVHashEqual(i)
        /\ DVReceived(i) /\ ~DVHashEqual(i) =>
              /\ dvTask[i] = "failed"
              /\ DVErrorOf(i) = {DownloadError("null")}
              /\ dvDisk[DVPath(i)] = dvDisk0[DVPath(i)]
        /\ DVReceived(i) /\ DVHashEqual(i) => dvTask[i] # "failed"
        /\ dvTask[i] = "done" =>
              /\ dvDisk[DVPath(i)].exists
              /\ hexdigest(dvDisk[DVPath(i)].data) = lower(dvFiles[i].sha256)

\* One call rejected a body whose hash differs and left the older file alone,
\* another wrote a body whose digest was published in upper case.
C1_Witness ==
    \E i, j \in DVTasks :
        /\ dvTask[i] = "failed" /\ DVReceived(i) /\ dvDisk0[DVPath(i)].exists
        /\ dvTask[j] = "done" /\ dvFiles[j].sha256.upper
        /\ dvDisk[DVPath(j)] # dvDisk0[DVPath(j)]

C6_State ==
    /\ DOMAIN dvTask = 1..Len(dvFiles)
    /\ dvGroup # "running" => \A i \in DVTasks : dvTask[i] \notin DVLive
    /\ dvGroup = "returned" =>
          \A i \in DVTasks : dvTask[i] = "done" /\ dvDisk[DVPath(i)] = FileOf(dvRaw[i][1])
    /\ dvGroup = "failed" =>
          /\ dvErrors # <<>>
          /\ dvTask[dvErrors[1].task] = "failed"
          /\ \A i \in DVTasks :
                /\ dvTask[i] = "done" => dvDisk[DVPath(i)] = FileOf(dvRaw[i][1])
                /\ dvTask[i] = "failed" => dvDisk[DVPath(i)] = dvDisk0[DVPath(i)]

-----------------------------------------------------------------------------
(* Claims about the command line and the manifest cache (SpecCache) *)

\* The (manifest_version, channel) pair the run is configured with.
Own == <<cfg.manifest_version, cfg.channel>>
Illegal(a) ==
    \/ a.manifest_version >= 18 /\ a.channel \in {"release", "pre"}
    \/ a.manifest_version <= 17 /\ a.channel \in {"stable", "insiders"}
LicenceAccepted(a) == a.licence \in {"flag", "Y"}
Requested(what) == {k \in 1..Len(httpLog) : httpLog[k].what = what}
Written(kind) == {k \in 1..Len(writeLog) : writeLog[k][2] = kind}

\* C7: a refused (version, channel) combination (version >= 18 with release
\* or pre, version <= 17 with stable or insiders) ends the command with exit
\* code 1 before any request, before any cache file is created and with the
\* configuration still at its defaults; every other combination passes.
C7_ChannelGating ==
    pc # "start" =>
        /\ Illegal(args) =>
              /\ pc = "exit" /\ exitCode = 1
              /\ httpLog = <<>> /\ readLog = {} /\ writeLog = <<>>
              /\ cache = cache0
              /\ cfg = DefaultOptions
        /\ ~Illegal(args) /\ LicenceAccepted(args) =>
              /\ pc # "exit"
              /\ cfg.manifest_version = args.manifest_version
              /\ cfg.channel = args.channel

\* A later run, licence accepted, refused at the gate for version 18 with a
\* channel of the older scheme, next to a cache earlier runs filled.
C7_Witness ==
    /\ pc = "exit" /\ LicenceAccepted(args)
    /\ args.manifest_version = 18 /\ args.channel = "release"
    /\ cache # EmptyCache

\* C8: when both manifest files of the configured pair are in the cache, the
\* two loads send no HTTP request, run after run.
C8_NoRequestWhenCached ==
    cache0[Own].chan.exists /\ cache0[Own].inst.exists => httpLog = <<>>

\* The last of the repeated runs loaded both manifests from the cache.
C8_Witness ==
    /\ run = MaxRuns /\ pc = "indexed"
    /\ cache0[Own].chan.exists /\ cache0[Own].inst.exists
    /\ readLog = {<<Own, "chan">>, <<Own, "inst">>}

\* C9: when both manifest files of the configured pair are in the cache, a
\* run writes neither of them.
C9_NoWriteWhenCached ==
    cache0[Own].chan.exists /\ cache0[Own].inst.exists => writeLog = <<>>

\* C10: the manifests are cached by (version, channel): a run reads and
\* writes only the files of its own pair, the files of every other pair stay
\* as they were, a cached file of the own pair is what the run loads, and a
\* run that finds nothing cached under its pair fetches from the network and
\* stores what it fetched under its pair.
C10_CachedByPair ==
    /\ \A f \in readLog : f[1] = Own
    /\ \A k \in 1..Len(writeLog) : writeLog[k][1] = Own
    /\ \A p \in Pairs \ {Own} : cache[p] = cache0[p]
    /\ pc \in {"chan_loaded", "indexed"} /\ ~cfg.manifest_path =>
          IF cache0[Own].chan.exists
          THEN chanManifest = cache0[Own].chan /\ Requested("channel") = {}
          ELSE /\ Requested("channel") # {}
               /\ chanManifest.origin = Url("channel", Own[1], Own[2])
               /\ cache[Own].chan = chanManifest
    /\ pc = "indexed" =>
          IF cache0[Own].inst.exists
          THEN instIndex = cache0[Own].inst /\ Requested("installer") = {}
          ELSE /\ Requested("installer") # {}
               /\ cache[Own].inst = instIndex

\* A run configured with another pair than the one cached before: it fetched
\* both manifests and stored them under its own pair.
C10_Witness ==
    /\ pc = "indexed" /\ ~cfg.manifest_path
    /\ \E p \in Pairs \ {Own} : cache0[p].chan.exists /\ cache0[p].inst.exists
                                 /\ p[1] = Own[1]
    /\ ~cache0[Own].chan.exists /\ ~cache0[Own].inst.exists
    /\ Len(httpLog) = 2
    /\ cache[Own].chan.exists /\ cache[Own].inst.exists

-----------------------------------------------------------------------------
(* Claims about the pipeline (Spec) *)

HashOk(i, raw) == hexdigest(raw) = lower(Payload(i).sha256)
ExtractionStarted(i) == xtask[i] \in {"running", "done", "failed"}
InstallerTouched ==
    \/ Requested("installer") # {}
    \/ Written("inst") # {}
    \/ \E f \in readLog : f[2] = "inst"

\* C2: no payload file is extracted before it has been hash-verified: the
\* fetched bytes are compared with the manifest sha256 before the file is
\* written under downloads/, and bytes that do not hash to it are neither
\* persisted nor extracted.
C2_VerifiedBeforeExtract ==
    \A i \in PayloadIds :
        /\ disk[FilePath(i)] # disk0[FilePath(i)] => HashOk(i, fraw[i])
        /\ ExtractionStarted(i) => HashOk(i, disk[FilePath(i)].data)

\* C3: the stages run in strict order: channel manifest, installer manifest,
\* selector, fetches, writes, extraction; a stage that fails starts no later
\* stage.
C3_StageOrder ==
    /\ InstallerTouched \/ instIndex.exists => chanManifest.exists
    /\ selection # <<>> => chanManifest.exists /\ instIndex.exists
    /\ ftask # NoTasks => selection # <<>> /\ {i \in PayloadIds : ftask[i] # "none"} = Sel
    /\ wtask # NoTasks => \A i \in Sel : ftask[i] = "done"
    /\ unpackDirs # {} \/ xtask # NoTasks =>
          \A i \in Sel : wtask[i] = "done" /\ disk[FilePath(i)] = FileOf(fraw[i])
    /\ pc = "failed" =>
          /\ failedAt.stage = "channel" => ~InstallerTouched /\ ~instIndex.exists
          /\ failedAt.stage \in {"channel", "installer"} => selection = <<>>
          /\ failedAt.stage \in {"channel", "installer", "select"} => ftask = NoTasks
          /\ failedAt.stage \in {"channel", "installer", "select", "download"} =>
                wtask = NoTasks /\ unpackDirs = {} /\ xtask = NoTasks

\* A run that fetched both manifests, selected several payloads, wrote them
\* and is extracting.
C3_Witness ==
    /\ Len(httpLog) = 2
    /\ Len(selection) >= 2
    /\ \E i \in Sel : xtask[i] = "running"

\* C4: a run that ends with success has run the tree reducer as its last
\* stage: reduced/{package_dir}/ exists for the CRT and the SDK directories.
C4_ReducedAtEnd ==
    pc = "done" => {Payload(i).package_dir_name : i \in Sel} \subseteq reduced

\* C5: in the unpack stage every downloaded .msi path goes to the MSI
\* extractor and every .vsix path to the VSIX extractor, .cab paths are not
\* extracted, and the stage returns after the extractions have completed.
C5_DispatchBySuffix ==
    pc = "done" =>
        \A i \in RetPaths :
            xtask[i] = IF Suffix(i) \in {".msi", ".vsix"} THEN "done" ELSE "none"

-----------------------------------------------------------------------------
(* Claims about the selector (SpecSelect) *)

SelCalled == selOut # NotCalled
SelKeys == DOMAIN selOut.out
\* the CRT and ATL payloads of the selection
CrtKeys == {k \in SelKeys : selOut.out[k].cls = "CRTPayload"}
SdkKeys == {k \in SelKeys : selOut.out[k].cls = "SDKPayload"}
SpectreKeys(kind) ==
    {k \in CrtKeys : selOut.out[k].kind = kind /\ selOut.out[k].spectre_hardened}
ListSet(list) == {list[k] : k \in 1..Len(list)}
\* the variants of the expanded configuration
ExpandedVariants ==
    IF selCfg.variant = <<"All">> THEN {"Desktop", "OneCore", "Store"}
    ELSE ListSet(selCfg.variant)

\* C11: on a successful selection, include_spectre=false yields no
\* spectre_hardened payload; include_spectre=true yields exactly one
\* spectre_hardened CRT library per (arch, variant) of the expanded
\* configuration with variant other than Store and none for Store, and with
\* include_atl exactly one spectre_hardened ATL library per arch; headers are
\* never spectre_hardened.
C11_SpectreGating ==
    selOut.ok =>
        /\ ~selCfg.include_spectre => \A k \in CrtKeys : ~selOut.out[k].spectre_hardened
        /\ selCfg.include_spectre =>
              /\ \A a \in ListSet(selCfg.arch), w \in ExpandedVariants :
                    Cardinality({k \in SpectreKeys("CrtLibs") :
                                    /\ selOut.out[k].target_arch = a
                                    /\ selOut.out[k].variant = w})
                        = IF w = "Store" THEN 0 ELSE 1
              /\ \A k \in SpectreKeys("CrtLibs") :
                    /\ selOut.out[k].target_arch \in ListSet(selCfg.arch)
                    /\ selOut.out[k].variant \in ExpandedVariants \ {"Store"}
              /\ \A a \in ListSet(selCfg.arch) :
                    Cardinality({k \in SpectreKeys("AtlLibs") : selOut.out[k].target_arch = a})
                        = IF selCfg.include_atl THEN 1 ELSE 0
              /\ \A k \in SpectreKeys("AtlLibs") :
                    selOut.out[k].target_arch \in ListSet(selCfg.arch)
        /\ \A k \in CrtKeys :
              selOut.out[k].kind \in HeaderKinds => ~selOut.out[k].spectre_hardened

\* A successful selection with spectre and ATL for two architectures and the
\* three variants, Store among them.
C11_Witness ==
    /\ selOut.ok
    /\ selCfg.include_spectre /\ selCfg.include_atl
    /\ selCfg.variant = <<"Desktop", "OneCore", "Store">>
    /\ Len(selCfg.arch) = 2 /\ selCfg.arch[1] # selCfg.arch[2]
    /\ Cardinality(SpectreKeys("CrtLibs")) = 4
    /\ Cardinality(SpectreKeys("AtlLibs")) = 2

SingleVariant(w) == pruned_packages(selIdx, [selCfg EXCEPT !.variant = <<w>>])
SinglesOk == \A w \in {"Desktop", "OneCore", "Store"} : SingleVariant(w).ok
SinglesUnion ==
    Merge(Merge(SingleVariant("Desktop").out, SingleVariant("OneCore").out),
          SingleVariant("Store").out)

\* C12: the selection for variant = [All] is the selection for
\* variant = [Desktop, OneCore, Store]: the same payloads or the same failure;
\* it succeeds exactly when the three single-variant selections succeed, and
\* its payloads are then the union of theirs.
C12_AllIsEveryVariant ==
    (SelCalled /\ selCfg.variant = <<"All">>) =>
        /\ selOut = pruned_packages(selIdx, [selCfg EXCEPT !.variant = <<"Desktop", "OneCore", "Store">>])
        /\ selOut.ok <=> SinglesOk
        /\ selOut.ok => selOut.out = SinglesUnion

\* A successful [All] selection that holds a Store library, a OneCore library
\* and a Desktop library.
C12_Witness ==
    /\ selOut.ok
    /\ selCfg.variant = <<"All">>
    /\ \A w \in {"Desktop", "OneCore", "Store"} :
          \E k \in CrtKeys : selOut.out[k].kind = "CrtLibs" /\ selOut.out[k].variant = w

\* the CRT version the selection settled on (the payloads carry it)
SelectedCrtVersions == {selOut.out[k].version : k \in CrtKeys}

\* C13: a CRT library id generated for (arch, variant, spectre) is a key of
\* the selection whose payload has target_arch = arch and variant = variant;
\* an ATL library id generated for arch has target_arch = arch; the header
\* payloads have target_arch = all and variant = All.
C13_InferenceRoundTrip ==
    selOut.ok =>
        \A v \in SelectedCrtVersions :
            /\ \A a \in ListSet(selCfg.arch), w \in ExpandedVariants, s \in BOOLEAN :
                  LET id == crt_lib_id(Version(v), a, w, s)
                  IN (s => selCfg.include_spectre /\ w # "Store") =>
                        /\ id \in CrtKeys
                        /\ selOut.out[id].target_arch = a
                        /\ selOut.out[id].variant = w
                        /\ selOut.out[id].spectre_hardened = s
            /\ selCfg.include_atl =>
                  /\ \A a \in ListSet(selCfg.arch), s \in BOOLEAN :
                        LET id == atl_lib_id(Version(v), a, s)
                        IN (s => selCfg.include_spectre) =>
                              /\ id \in CrtKeys
                              /\ selOut.out[id].target_arch = a
                              /\ selOut.out[id].variant = "All"
                  /\ atl_header_id(Version(v)) \in CrtKeys
                  /\ selOut.out[atl_header_id(Version(v))].target_arch = "all"
            /\ crt_header_id(Version(v)) \in CrtKeys
            /\ selOut.out[crt_header_id(Version(v))].target_arch = "all"
            /\ selOut.out[crt_header_id(Version(v))].variant = "All"

\* A successful selection for aarch64 (whose package id holds ARM64, of which
\* ARM is a substring) and OneCore (whose package id holds OneCore.Desktop, of
\* which Desktop is a substring), with spectre libraries and ATL.
C13_Witness ==
    /\ selOut.ok
    /\ selCfg.include_spectre /\ selCfg.include_atl
    /\ \E k \in SpectreKeys("CrtLibs") :
          selOut.out[k].target_arch = "aarch64" /\ selOut.out[k].variant = "OneCore"
    /\ \E k \in SpectreKeys("AtlLibs") : selOut.out[k].target_arch = "aarch64"

\* the greatest toolchain version the index offers under a .x86.x64 key:
\* 14.10.0.0 when its key is there, else 14.9.0.1 (DepKeyArm, 14.11.0.0, ends
\* in .ARM64 and DepKeyTools holds no version)
OfferedCrtVersions ==
    (IF DepKeyNew \in selIdx.buildtools[1] THEN {<<"1", "4", ".", "1", "0", ".", "0", ".", "0">>} ELSE {})
        \cup (IF DepKeyOld \in selIdx.buildtools[1] THEN {<<"1", "4", ".", "9", ".", "0", ".", "1">>} ELSE {})
GreatestOffered ==
    IF <<"1", "4", ".", "1", "0", ".", "0", ".", "0">> \in OfferedCrtVersions THEN <<"1", "4", ".", "1", "0", ".", "0", ".", "0">> ELSE <<"1", "4", ".", "9", ".", "0", ".", "1">>

\* C14: with crt_version unset every CRT and ATL payload of a successful
\* selection carries the numerically greatest version offered under a
\* .x86.x64 dependency key; with crt_version set they carry exactly that
\* version if it is offered, and otherwise the selection fails with
\* UnsupportedPackageConfigurationError and holds no payload.
C14_CrtVersionDiscovery ==
    (SelCalled /\ Len(selIdx.buildtools) = 1) =>
        /\ (selOut.ok /\ selCfg.crt_version = None) =>
              SelectedCrtVersions = {GreatestOffered}
        /\ (selOut.ok /\ selCfg.crt_version # None) =>
              SelectedCrtVersions = {selCfg.crt_version}
        /\ (selCfg.crt_version # None /\ selCfg.crt_version \notin OfferedCrtVersions) =>
              /\ ~selOut.ok
              /\ selOut.err = "UnsupportedPackageConfigurationError"
              /\ selOut.out = EmptyDict
        /\ selOut.ok => SelectedCrtVersions \subseteq OfferedCrtVersions

\* Discovery between 14.9.0.1 and 14.10.0.0 with ATL selected: every CRT and
\* ATL payload carries 14.10.0.0.
C14_Witness ==
    /\ selOut.ok
    /\ selCfg.crt_version = None /\ selCfg.include_atl
    /\ Cardinality(OfferedCrtVersions) = 2
    /\ \E k \in CrtKeys : selOut.out[k].kind = "AtlLibs"
    /\ \E k \in CrtKeys : selOut.out[k].kind = "CrtLibs"
    /\ SelectedCrtVersions = {GreatestOffered}

SdkHeaderKeys(target_arch) ==
    {k \in SdkKeys : selOut.out[k].kind = "SdkHeaders" /\ selOut.out[k].target_arch = target_arch}

\* C15: on a successful selection each of the four common header MSIs is a
\* SdkHeaders payload with target_arch = all, and each arch of cfg.arch has
\* its own SdkHeaders payload with target_arch = arch.
C15_CommonHeadersKept ==
    selOut.ok =>
        /\ \A suffix \in header_suffixes :
              \E k \in SdkHeaderKeys("all") : EndsWith(k, suffix)
        /\ \A a \in ListSet(selCfg.arch) : SdkHeaderKeys(a) # {}

-----------------------------------------------------------------------------
(* Claims about the download destinations *)

Cabs == {i \in Sel : Payload(i).kind = "CabFile"}
Msis == {i \in Sel : Payload(i).suffix = ".msi"}
\* every SDK payload of the selection the run downloads from goes to
\* SDK_{version} of the one SDK version of the selection
SdkDirsOf(out) ==
    {package_dir_name(out[k]) : k \in {n \in DOMAIN out : out[n].cls = "SDKPayload"}}
CabsColocated ==
    LET idx == selIdx
        r == pruned_packages(selIdx, selCfg)
    IN  r.ok =>
              /\ SdkDirsOf(r.out) = {<<"S", "D", "K", "_", "1", "0", ".", "0", ".", "2", "6", "1", "0", "0">>}
              /\ \A k \in DOMAIN r.out :
                    r.out[k].cls = "SDKPayload" =>
                        /\ ~Contains(<<"/">>, r.out[k].filename)
                        /\ ~Contains(<<"\\">>, r.out[k].filename)
              /\ \E k \in DOMAIN r.out : r.out[k].kind = "CabFile" /\ k \in idx.ucrt
              /\ \E k \in DOMAIN r.out : r.out[k].kind = "CabFile" /\ k \in idx.sdk
              /\ \E k \in DOMAIN r.out : r.out[k].kind = "Ucrt"

\* C16: every selected CabFile payload, from the SDK item or from the UCRT
\* item, is downloaded to the directory SDK_{version} of the SDK MSIs and the
\* UCRT MSI, and once unpack_files has handled an MSI of the run every CAB
\* file of the run is completely written.
C16_CabsBesideMsi ==
    /\ CabsColocated
    /\ \A i \in Cabs, j \in Msis :
          Payload(i).package_dir_name = Payload(j).package_dir_name
    /\ \A j \in Msis :
          (FilePath(j) \in unpackDirs \/ xtask[j] # "none") =>
              \A i \in Cabs : wtask[i] = "done" /\ disk[FilePath(i)] = FileOf(fraw[i])

\* unpack_files has created the extract location of the UCRT MSI while the
\* CAB of the UCRT item lies written beside it.
C16_Witness ==
    /\ plan.item = "ucrt" /\ plan.cab.kind = "CabFile"
    /\ Cabs # {} /\ Msis # {}
    /\ \E j \in Msis : FilePath(j) \in unpackDirs /\ Payload(j).kind = "Ucrt"
    /\ \A i \in Cabs : disk[FilePath(i)] = FileOf(fraw[i]) /\ disk[FilePath(i)].exists

-----------------------------------------------------------------------------
(* Claims about fetch_file_bytes as download_and_validate calls it (SpecDV) *)

\* C19: a fetch that returned no body failed with a Download error, whether
\* the server answered with a non-2xx status or no response arrived at all.
C19_FetchFailsWithDownload ==
    \A k \in 1..Len(dvErrors) :
        dvRaw[dvErrors[k].task] = <<>> =>
            /\ dvErrors[k].err.kind = "Download"
            /\ dvErrors[k].err.status \in HttpStatuses \cup {"null"}

-----------------------------------------------------------------------------
(* Claims about the reducer (SpecReduce) *)

\* C17: every reduced file was copied from exactly one source file of the
\* unpack tree: no reduced file received its content from two source files.
C17_OneSourcePerReducedFile ==
    \A t \in DOMAIN reducedTree :
        Cardinality({path \in DOMAIN unpackTree : <<path, t>> \in copyLog}) = 1

-----------------------------------------------------------------------------
(* Claims about the VSIX extractors (SpecVsix) *)

\* C18: whichever extractor ran, a member of the archive is written below
\* the extract location exactly when its path holds one of lib, src,
\* include, crt, under its archive-relative path.
C18_OnlyRequiredDirsWritten ==
    zipPc # "idle" =>
        \A member \in zipMembers :
            member \in zipWritten <=>
                \/ Contains(<<"l", "i", "b">>, member)
                \/ Contains(<<"s", "r", "c">>, member)
                \/ Contains(<<"i", "n", "c", "l", "u", "d", "e">>, member)
                \/ Contains(<<"c", "r", "t">>, member)

-----------------------------------------------------------------------------
(* Claims about ManifestOptions (SpecOptions) *)

\* C20: a ManifestOptions object never holds an empty arch or an empty
\* variant.
C20_ArchAndVariantNonEmpty ==
    mo # NoObject => mo.arch # <<>> /\ mo.variant # <<>>

-----------------------------------------------------------------------------
(* Claims about the selector's failures (SpecSelect) *)

\* C21: every failure of prune_packages is one of the six error kinds of the
\* taxonomy (PyxwinDownloadError, PyxwinMissingPackageError,
\* UnsupportedPackageConfigurationError, MalformedJsonError,
\* MissingFieldError, InvalidInputDataError), never a builtin exception or
\* the bare PyxwinError base class.
C21_SelectorFailuresTyped ==
    (SelCalled /\ ~selOut.ok) =>
        selOut.err \in {"PyxwinDownloadError", "PyxwinMissingPackageError",
                        "UnsupportedPackageConfigurationError", "MalformedJsonError",
                        "MissingFieldError", "InvalidInputDataError"}

\* C24: the selection fails when the index holds no item under the
\* BuildTools id and fails when it holds more than one; it succeeds only
\* when exactly one is present.
C24_SingleBuildToolsItem ==
    SelCalled =>
        /\ Len(selIdx.buildtools) # 1 => ~selOut.ok
        /\ selOut.ok => Len(selIdx.buildtools) = 1

\* the common header suffixes no payload of the SDK item ends with
UnmatchedSuffixes ==
    {suffix \in header_suffixes : ~\E p \in selIdx.sdk : EndsWith(p, suffix)}

\* C25: the selection never succeeds while one of the four common header
\* suffixes is matched by no payload of the SDK item, and it never fails
\* with PyxwinMissingPackageError when all four are matched (the indexes all
\* hold the Store Apps Libs payload, the other source of that error).
C25_MissingHeaderExactly ==
    SelCalled =>
        /\ selOut.ok => UnmatchedSuffixes = {}
        /\ selOut.err = "PyxwinMissingPackageError" => UnmatchedSuffixes # {}

-----------------------------------------------------------------------------
(* Claims about SDK file names (SpecCanon, SpecSelect) *)

\* s without prefix at its start, s itself when it does not start with it
StripLeading(s, prefix) ==
    IF Len(s) >= Len(prefix) /\ SubSeq(s, 1, Len(prefix)) = prefix
    THEN SubSeq(s, Len(prefix) + 1, Len(s))
    ELSE s
\* the manifest file_name lowercased, spaces and backslashes as underscores
Underscored ==
    text_lower([k \in 1..Len(canIn.manifest_payload.file_name) |->
                   IF canIn.manifest_payload.file_name[k] \in {" ", "\\"} THEN "_"
                   ELSE canIn.manifest_payload.file_name[k]])

\* C26: the filename of an SDK payload is the manifest file_name lowercased
\* with every space and backslash replaced by an underscore; non-CAB kinds
\* get the prefix {sdk_key}_; for CAB kinds only a leading installers_ is
\* stripped, an occurrence elsewhere is kept.
C26_FilenameCanonical ==
    canOut # NotBuilt =>
        canOut.filename =
            IF canIn.kind = "CabFile"
            THEN StripLeading(Underscored, <<"i", "n", "s", "t", "a", "l", "l", "e", "r", "s", "_">>)
            ELSE canIn.sdk_prefix \o <<"_">> \o Underscored

\* download_unpack.py:38-39: where under cache_dir/downloads/ a selected
\* payload is written
Destination(pkg) == <<package_dir_name(pkg), pkg.filename>>

\* C27: two selected SDK payloads are given the same destination path under
\* cache_dir/downloads/ only if their sha256 is the same.
C27_DestinationsDistinct ==
    \A k1 \in SdkKeys, k2 \in SdkKeys :
        Destination(selOut.out[k1]) = Destination(selOut.out[k2]) =>
            selOut.out[k1].sha256 = selOut.out[k2].sha256

-----------------------------------------------------------------------------
(* Claims about the download stage (SpecDownload) *)

\* the call of download_packages has returned its list of paths
DownloadReturned == pc \in {"downloaded", "unpacking", "done"} \/ failedAt.stage = "unpack"

\* C28: download_packages starts no file write until the fetch of every
\* selected payload has completed successfully; if a fetch fails the fetches
\* still running are cancelled, the call fails, and no file under downloads/
\* was created or modified by it; when it returns, there is one returned
\* path per selected payload, in selection order, each completely written.
C28_TwoPhaseDownload ==
    /\ (wtask # NoTasks \/ disk # disk0) => \A i \in Sel : ftask[i] = "done"
    /\ (\E i \in Sel : ftask[i] = "failed") /\ pc # "fetching" =>
          /\ pc = "failed" /\ failedAt.stage = "download"
          /\ \A i \in Sel : ftask[i] \notin TaskLive
          /\ wtask = NoTasks /\ disk = disk0 /\ retPaths = <<>>
    /\ ~DownloadReturned => retPaths = <<>>
    /\ DownloadReturned =>
          /\ Len(retPaths) = Len(selection)
          /\ \A k \in 1..Len(selection) :
                /\ retPaths[k] = FilePath(selection[k])
                /\ wtask[selection[k]] = "done"
                /\ disk[retPaths[k]] = FileOf(fraw[selection[k]])

\* download_packages returned the paths of MaxPayloads payloads and replaced
\* files an earlier run had left.
C28_Witness ==
    /\ pc = "downloaded"
    /\ Len(retPaths) = MaxPayloads
    /\ disk0 = OldDisk /\ \A i \in Sel : disk[FilePath(i)] # disk0[FilePath(i)]

-----------------------------------------------------------------------------
(* Claims about the content of the manifest cache (SpecCache) *)

\* C29: a manifest file that exists in the cache parses as a valid manifest,
\* whatever runs came before; so a run that fails on text that does not
\* validate has fetched that text itself (or was given it as a local file).
C29_CachedManifestsValid ==
    /\ \A p \in Pairs :
          /\ cache[p].chan.exists => cache[p].chan.shape # "bad"
          /\ cache[p].inst.exists => cache[p].inst.shape # "bad"
    /\ (pc = "failed" /\ failedAt.kind = "ValidationError"
           /\ ~(failedAt.stage = "channel" /\ cfg.manifest_path)) =>
          httpLog # <<>>

-----------------------------------------------------------------------------
(* Claims about variant lists that hold All (SpecSelect) *)

\* cfg.variant holds All and is not the one-element list [All]
MixedAll == Len(selCfg.variant) > 1 /\ "All" \in ListSet(selCfg.variant)
\* the index holds no CRT library id of variant All
NoAllLibs ==
    \A item_id \in selIdx.items :
        ~Contains(<<".", "A", "l", "l", ".", "b", "a", "s", "e">>, item_id)
\* the CRT version is found and its header package is in the index, so the
\* selector gets to the CRT libraries
ReachesCrtLibs ==
    /\ select_crt_version(selIdx, selCfg).ok
    /\ crt_header_id(select_crt_version(selIdx, selCfg).out) \in selIdx.items

\* C30: for a variant list that holds All next to another element (or All
\* twice) nothing is expanded: on an index without an ...All.base library id
\* the selection returns no payloads, and once it gets to the CRT libraries
\* it fails with UnsupportedPackageConfigurationError, although the concrete
\* variants listed next to All are available.
C30_AllOnlyAloneExpands ==
    (SelCalled /\ MixedAll /\ NoAllLibs) =>
        /\ ~selOut.ok /\ selOut.out = EmptyDict
        /\ ReachesCrtLibs => selOut.err = "UnsupportedPackageConfigurationError"

\* [Desktop, All] for architectures whose Desktop libraries the index holds:
\* the selection fails with UnsupportedPackageConfigurationError.
C30_Witness ==
    /\ SelCalled /\ NoAllLibs /\ ReachesCrtLibs
    /\ selCfg.variant = <<"Desktop", "All">>
    /\ \A k \in 1..Len(selCfg.arch) :
          crt_lib_id(select_crt_version(selIdx, selCfg).out, selCfg.arch[k], "Desktop", FALSE)
              \in selIdx.items
    /\ selOut.err = "UnsupportedPackageConfigurationError"
    /\ selOut.out = EmptyDict

-----------------------------------------------------------------------------
(* Claims about the multi-extract functions (SpecExtract) *)

\* C22: during a call of multi_extract_msi_async or multi_extract_vsix_async
\* at most 4 of the submitted extractions execute at any moment, and the
\* call has returned (normally or with an error) only when every submitted
\* extraction has stopped: none is running and none is still to run.
C22_BoundedPoolJoined ==
    /\ Cardinality(Executing(exTask)) <= 4
    /\ exPeak <= 4
    /\ exPc = "returned" =>
          \A i \in 1..Len(exTask) : exTask[i] \in {"done", "failed"}

\* A call on more than four files that raised and has returned, with four
\* extractions seen executing at once and one of them completed.
C22_Witness ==
    /\ exPc = "returned" /\ exErr = "error"
    /\ Len(exTask) > 4 /\ exPeak = 4
    /\ exTask[1] = "failed"
    /\ exTask[Len(exTask)] = "done"

-----------------------------------------------------------------------------
(* Claims about the installer manifest (SpecCache) *)

\* C23: load_installer_manifest returns a package index only if the channel
\* manifest it was given holds an item of type Manifest, and then the index
\* is built from the installer manifest at payloads[0].url of that item;
\* given a channel manifest without such an item it fails with MalformedJson.
C23_IndexFromGivenChannelManifest ==
    /\ pc = "indexed" =>
          /\ chanManifest.shape = "ok"
          /\ instIndex.origin = InstallerUrl(chanManifest)
    /\ (chanManifest.shape = "noitem" /\ pc # "chan_loaded") =>
          /\ pc = "failed"
          /\ failedAt = [stage |-> "installer", kind |-> "MalformedJson"]

====
